---------------------------- MODULE Spec2Model ----------------------------
(***************************************************************************)
(* The call executor of the NotebookLM client (NotebookLMClient in         *)
(* src/src/notebook_julian/client.py): one RPC call run through the        *)
(* auth-refresh-and-retry and the server-error backoff policies, and the   *)
(* per-conversation turn store of query().  The server, the landing page   *)
(* and the credential file are the environment: every response is drawn    *)
(* from a small set.                                                       *)
(***************************************************************************)
EXTENDS Integers, Sequences, FiniteSets, TLC

(***************************************************************************)
(* Bounds of the model.                                                    *)
(***************************************************************************)
\* Operations (execute, close) started on one Executor under Spec.
MaxOps == 2
\* ask() calls started on one Executor under SpecAsk.
MaxAsks == 3
\* ask() calls among them that omit source_ids (and fetch them first).
MaxFetches == 1
\* The largest number that occurs in a JSON value or text.
MaxNumber == 16
\* Frames of a decoded response handed to a protocol function.
MaxFrames == 2
\* Lines of a response body handed to a protocol function.
MaxLines == 4
\* Lines of a streaming response body handed to parse_query_response.
MaxQueryLines == 3
\* Characters of a string inside a parameter value handed to an encoder.
MaxChars == 2
\* Tool invocations in one run.
MaxTools == 1

(***************************************************************************)
(* Program constants.                                                      *)
(***************************************************************************)
MAX_RETRIES == 3
RETRY_BASE_DELAY == 1
RETRY_MAX_DELAY == 16
RETRYABLE_STATUS_CODES == {429, 500, 502, 503, 504}
RPC_LIST_NOTEBOOKS == "wXbhsf"
RPC_GET_NOTEBOOK == "rLM1Ne"
RPC_GET_SOURCE == "hizoJc"
RPC_ADD_SOURCE == "izAoDd"
REQUIRED_COOKIES == {"SID", "HSID", "SSID", "APISID", "SAPISID"}
\* add_source_text refuses a text longer than this.
TEXT_LIMIT == 500000
\* random.randint(100000, 999999) and the step of _reqid_counter
REQID_MIN == 100000
REQID_STEP == 100000
\* The code of the error signature (16 in item[5]); the log keeps it as the
\* status of a 200 response whose entry carries the signature.
RpcError16 == 16
\* A candidate text counts when it is longer than this.
MinTextLength == 20

(***************************************************************************)
(* Input sets.                                                             *)
(***************************************************************************)
\* HTTP error statuses a response may carry (200 is the success status).
ErrorStatuses == {401, 403, 404, 429, 501, 503}
\* Error statuses of the streaming response.
AskErrorStatuses == {401, 403, 429, 503}
\* Decoded result values of a batch call: the number p stands for the data
\* of a notebook with p sources.
Payloads == {1, 2}
\* Conversation ids are numbered in the order uuid4 mints them; ForeignConv is
\* an id the caller made up, NoConv stands for conversation_id = None.
NoConv == 0 - 1
ForeignConv == 0
Questions == {"q1", "q2"}
\* Texts parse_query_response may return; "" when no fragment qualifies.
Answers == {"", "a1"}
\* source_ids as the caller gives them; <<"None">> stands for None.
SourceNone == <<"None">>
SourceArgs == {SourceNone, <<"s1">>}
RpcIds == {RPC_LIST_NOTEBOOKS, RPC_GET_NOTEBOOK}

(***************************************************************************)
(* JSON values and JSON text.  A value is null, a number, a string or a    *)
(* list.  A text is a sequence of symbols: a symbol is one of the          *)
(* characters that have a meaning to an encoder or decoder (brackets,      *)
(* comma, quote, backslash, and the characters of a form body or a URL),   *)
(* or a word of letters and digits taken as a whole.                       *)
(***************************************************************************)
JNull == [t |-> "null", n |-> 0, chars |-> << >>, items |-> << >>]
JNum(n) == [t |-> "num", n |-> n, chars |-> << >>, items |-> << >>]
JStr(chars) == [t |-> "str", n |-> 0, chars |-> chars, items |-> << >>]
JList(items) == [t |-> "list", n |-> 0, chars |-> << >>, items |-> items]
\* Python's None.
NoneValue == JNull

\* The numbers that occur, written as words.
Numbers == 0 .. MaxNumber
IsNumberWord(w) == \E n \in Numbers : ToString(n) = w
NumberOf(w) == CHOOSE n \in Numbers : ToString(n) = w

\* json.dumps of a string's characters: quote and backslash are escaped.
RECURSIVE Escaped(_)
Escaped(chars) ==
    IF chars = << >> THEN << >>
    ELSE (IF Head(chars) \in {"\"", "\\"} THEN <<"\\", Head(chars)>> ELSE <<Head(chars)>>)
         \o Escaped(Tail(chars))

\* json.dumps(value, separators=(",", ":"))
RECURSIVE json_dumps(_)
RECURSIVE DumpedItems(_)
DumpedItems(items) ==
    IF items = << >> THEN << >>
    ELSE IF Len(items) = 1 THEN json_dumps(items[1])
    ELSE json_dumps(Head(items)) \o <<",">> \o DumpedItems(Tail(items))

json_dumps(value) ==
    IF value.t = "null" THEN <<"null">>
    ELSE IF value.t = "num" THEN <<ToString(value.n)>>
    ELSE IF value.t = "str" THEN <<"\"">> \o Escaped(value.chars) \o <<"\"">>
    ELSE <<"[">> \o DumpedItems(value.items) \o <<"]">>

\* json.loads: [ok |-> FALSE] stands for json.JSONDecodeError.
Parsed(value, pos) == [ok |-> TRUE, value |-> value, pos |-> pos]
NotParsed == [ok |-> FALSE, value |-> JNull, pos |-> 0]

RECURSIVE ParseChars(_, _, _)
ParseChars(text, i, acc) ==
    IF i > Len(text) THEN NotParsed
    ELSE IF text[i] = "\"" THEN Parsed(JStr(acc), i + 1)
    ELSE IF text[i] = "\\"
         THEN IF i + 1 <= Len(text) /\ text[i + 1] \in {"\"", "\\"}
              THEN ParseChars(text, i + 2, Append(acc, text[i + 1]))
              ELSE NotParsed
    ELSE ParseChars(text, i + 1, Append(acc, text[i]))

RECURSIVE ParseValue(_, _)
RECURSIVE ParseItems(_, _, _)
ParseItems(text, i, acc) ==
    LET r == ParseValue(text, i) IN
    IF ~r.ok \/ r.pos > Len(text) THEN NotParsed
    ELSE IF text[r.pos] = "," THEN ParseItems(text, r.pos + 1, Append(acc, r.value))
    ELSE IF text[r.pos] = "]" THEN Parsed(JList(Append(acc, r.value)), r.pos + 1)
    ELSE NotParsed

ParseValue(text, i) ==
    IF i > Len(text) THEN NotParsed
    ELSE IF text[i] = "null" THEN Parsed(JNull, i + 1)
    ELSE IF IsNumberWord(text[i]) THEN Parsed(JNum(NumberOf(text[i])), i + 1)
    ELSE IF text[i] = "\"" THEN ParseChars(text, i + 1, << >>)
    ELSE IF text[i] = "["
         THEN IF i + 1 <= Len(text) /\ text[i + 1] = "]"
              THEN Parsed(JList(<< >>), i + 2)
              ELSE ParseItems(text, i + 1, << >>)
    ELSE NotParsed

json_loads(text) ==
    LET r == ParseValue(text, 1) IN
    IF r.ok /\ r.pos = Len(text) + 1 THEN r ELSE NotParsed

\* One response-envelope entry of a decoded frame:
\* [tag, rpc, result, null, null, codes, tail]; result is item[2], codes is
\* item[5] and tail is item[6].
Item(tag, rpc, result, codes, tail) ==
    JList(<<JStr(<<tag>>), JStr(<<rpc>>), result, JNull, JNull, codes, JStr(<<tail>>)>>)

\* item[2] of an entry that holds the result value v: the text of v.
ResultText(v) == JStr(json_dumps(v))
ErrorCodes == JList(<<JNum(RpcError16)>>)

\* Decoded bodies (frame sequences) of HTTP 200 responses to a call of rpc.
OkBodies(rpc) ==
    {<<JList(<<Item("wrb.fr", rpc, ResultText(JNum(p)), JNull, "generic")>>)>> :
        p \in Payloads}
    \cup { <<JList(<<Item("wrb.fr", rpc, JNull, ErrorCodes, "generic")>>)>>,
           <<JList(<<Item("wrb.fr", rpc, ResultText(JNum(1)), ErrorCodes, "generic")>>)>>,
           <<JList(<<Item("wrb.fr", "other", ResultText(JNum(1)), JNull, "generic")>>)>>,
           << >> }

(***************************************************************************)
(* protocol.extract_rpc_result: the result of the first entry tagged       *)
(* "wrb.fr" for rpc_id; the error signature is tested before the result.   *)
(***************************************************************************)
\* len(item) > 6 and item[6] == "generic" and isinstance(item[5], list)
\* and 16 in item[5]
IsAuthExpiredItem(item) ==
    /\ Len(item.items) > 6
    /\ item.items[7] = JStr(<<"generic">>)
    /\ item.items[6].t = "list"
    /\ \E k \in 1 .. Len(item.items[6].items) : item.items[6].items[k] = JNum(RpcError16)

\* The entries of a chunk that pass lines 161-164.
IsMatchingItem(item, rpc_id) ==
    /\ item.t = "list"
    /\ Len(item.items) >= 3
    /\ item.items[1] = JStr(<<"wrb.fr">>)
    /\ item.items[2] = JStr(<<rpc_id>>)

MatchingItems(chunk, rpc_id) ==
    IF chunk.t # "list" THEN << >>
    ELSE SelectSeq(chunk.items, LAMBDA item : IsMatchingItem(item, rpc_id))

RECURSIVE FlattenMatches(_, _)
FlattenMatches(parsed, rpc_id) ==
    IF parsed = << >> THEN << >>
    ELSE MatchingItems(Head(parsed), rpc_id) \o FlattenMatches(Tail(parsed), rpc_id)

\* item[2] as it is.
ResultOfUndecoded(item) == item.items[3]

\* Lines 176-182: item[2], JSON-decoded when it is a string that parses.
ResultOf(item) ==
    IF item.items[3].t = "str"
    THEN IF json_loads(item.items[3].chars).ok
         THEN json_loads(item.items[3].chars).value
         ELSE item.items[3]
    ELSE item.items[3]

\* The signature is tested after the result.
extract_rpc_result_value_first(parsed, rpc_id) ==
    LET m == FlattenMatches(parsed, rpc_id) IN
    IF m = << >> THEN [signal |-> FALSE, value |-> NoneValue]
    ELSE IF m[1].items[3] # JNull THEN [signal |-> FALSE, value |-> ResultOf(m[1])]
    ELSE IF IsAuthExpiredItem(m[1]) THEN [signal |-> TRUE, value |-> NoneValue]
    ELSE [signal |-> FALSE, value |-> NoneValue]

\* [signal |-> TRUE] is the AuthExpiredError; otherwise value is the result.
extract_rpc_result(parsed, rpc_id) ==
    LET m == FlattenMatches(parsed, rpc_id) IN
    IF m = << >> THEN [signal |-> FALSE, value |-> NoneValue]
    ELSE IF IsAuthExpiredItem(m[1]) THEN [signal |-> TRUE, value |-> NoneValue]
    ELSE [signal |-> FALSE, value |-> ResultOf(m[1])]

(***************************************************************************)
(* Credential bundles and the credential file.                             *)
(***************************************************************************)
Bundle(c, t, s) == [kind |-> "bundle", cookies |-> c, csrf_token |-> t, session_id |-> s]
NoBundle(k) == [kind |-> k, cookies |-> "", csrf_token |-> "", session_id |-> ""]

\* What an external login may have written, and the unusable contents.
ExternalFiles ==
    { Bundle("ckD", "tokD", "sidD"), Bundle("", "tokD", "sidD"),
      NoBundle("missing"), NoBundle("badjson"), NoBundle("nonobject") }

\* auth.load_tokens: None for a missing file, invalid JSON or an empty cookie
\* map; data.get on a JSON value that is no object raises AttributeError,
\* and read_text on bytes that are no UTF-8 raises UnicodeDecodeError: the
\* except clause names neither.
load_tokens(file) ==
    IF file.kind = "missing" THEN [raises |-> FALSE, tokens |-> NoBundle("None")]
    ELSE IF file.kind = "badjson" THEN [raises |-> FALSE, tokens |-> NoBundle("None")]
    ELSE IF file.kind = "nonobject" THEN [raises |-> TRUE, tokens |-> NoBundle("None")]
    ELSE IF file.kind = "undecodable" THEN [raises |-> TRUE, tokens |-> NoBundle("None")]
    ELSE IF file.cookies = "" THEN [raises |-> FALSE, tokens |-> NoBundle("None")]
    ELSE [raises |-> FALSE, tokens |-> file]

\* Landing pages a refresh may fetch: outcome of the GET, and the token and
\* session id the text patterns find in the page ("" when none).
Page(o, t, s) == [outcome |-> o, csrf |-> t, sid |-> s]
Pages ==
    { Page("ok", "tokP", "sidP"), Page("ok", "tokP", ""), Page("ok", "", "sidP"),
      Page("redirect", "", ""), Page("non200", "", ""), Page("transport", "", "") }

(***************************************************************************)
(* State.                                                                  *)
(***************************************************************************)
VARIABLES
    cookies,        \* self.cookies
    csrf_token,     \* self.csrf_token
    session_id,     \* self._session_id
    auth_changes,   \* times cookies, csrf_token or _session_id changed so far
    client,         \* self._client: 0 for None, else the handle's number
    handles,        \* the transport handles created so far, in order
    disk,           \* the credential file as the Executor last wrote it
    pc,             \* position of the operation in progress
    caller,         \* who waits for _call_rpc: "execute" or "query"
    rpc_id,         \* _call_rpc's rpc_id
    auth_retried,   \* _call_rpc's _auth_retried
    server_retry,   \* _call_rpc's _server_retry
    outcome,        \* what the last operation returned or raised
    log,            \* what the operation in progress did, in order
    lastReq,        \* the last request sent
    lastBody,       \* the decoded body of the last HTTP 200 response
    lastFile,       \* the credential file as load_tokens last read it
    conversation_cache, \* self._conversation_cache: id -> list of turns
    reqid_counter,  \* self._reqid_counter
    reqids,         \* the _reqid values of the streaming requests sent, in order
    uuids,          \* conversation ids minted so far
    q,              \* query()'s arguments and locals while it runs
    answered,       \* per conversation id: asks that returned an answer text
    returned,       \* per conversation id: asks that returned at all
    fetches,        \* ask() calls so far that omitted source_ids
    tracing,        \* whether log is kept (it is under Spec)
    proto,          \* the protocol function last applied, its input and output
    tool,           \* the tool invocation in progress, and server._client
    ops             \* operations started so far

vars == <<cookies, csrf_token, session_id, auth_changes, client, handles, disk, pc, caller,
          rpc_id, auth_retried, server_retry, outcome, log, lastReq,
          lastBody, lastFile, conversation_cache, reqid_counter, reqids, uuids, q, answered,
          returned, fetches,
          tracing, proto, tool, ops>>

authVars == <<cookies, csrf_token, session_id, auth_changes>>
seenVars == <<lastBody, lastFile>>
askRest == <<conversation_cache, reqid_counter, reqids, uuids, answered, returned, fetches,
             tracing, proto, tool>>
askVars == <<askRest, q>>

\* query()'s frame: the handle taken at entry, the arguments (source_arg is
\* source_ids as given), and nb_data once get_notebook has returned.
QFrame(h, text, src, conv) ==
    [client |-> h, query_text |-> text, source_ids |-> src, conversation_id |-> conv,
     source_arg |-> src, nb_data |-> NoneValue]
NoQuery == QFrame(0, "", SourceNone, NoConv)

\* What an operation returned (kind "result" or "answer") or raised.
Outcome(k, v, st, h, m) ==
    [kind |-> k, value |-> v, status |-> st, hint |-> h, msg |-> m,
     answer |-> "", conversation_id |-> NoConv, turn_number |-> 0,
     is_follow_up |-> FALSE]
NoOutcome == Outcome("none", NoneValue, 0, FALSE, "")
\* AuthenticationError.__init__ always sets a hint.
AuthenticationError(msg) == Outcome("AuthenticationError", NoneValue, 0, TRUE, msg)
APIError(msg, st) == Outcome("APIError", NoneValue, st, FALSE, msg)
\* Exceptions the client does not wrap: propagated as raised.
RawError(k, st) == Outcome(k, NoneValue, st, FALSE, "")

\* The history parameter: None, or the list of records.
NullHistory == [null |-> TRUE, records |-> << >>]
History(recs) == [null |-> FALSE, records |-> recs]

\* A request as sent: what the body and the URL were built from, and the
\* handle it went over.
Request(kind, rpc, t, s, h) ==
    [kind |-> kind, rpc |-> rpc, csrf |-> t, sid |-> s, handle |-> h,
     auth_at |-> auth_changes,
     reqid |-> 0, sources |-> << >>, query |-> "", history |-> NullHistory,
     conversation_id |-> NoConv, given |-> NoConv]
NoRequest == Request("none", "", "", "", 0)

Event(e, d) == [e |-> e, d |-> d]
\* The log keeps the exact status of the latest response; of an earlier
\* response with a status of the 429/5xx class it keeps the class only (d = 0).
IsServerErrorClass(d) == d = 429 \/ d \in 500 .. 599
Coarse(l) ==
    [i \in 1 .. Len(l) |->
       IF l[i].e = "send" /\ IsServerErrorClass(l[i].d) THEN Event("send", 0) ELSE l[i]]
Logged(events) == IF tracing THEN Coarse(log) \o events ELSE log
Count(e) == Len(SelectSeq(log, LAMBDA x : x.e = e))
Delays == SelectSeq(log, LAMBDA x : x.e = "sleep")
\* A call of _refresh_auth_tokens, however it ended.
IsRefresh(x) == x.e \in {"refresh_ok", "refresh_auth_error", "refresh_transport_error"}
Refreshes == Len(SelectSeq(log, IsRefresh))
IsAuthSignal(x) == x.e = "send" /\ x.d \in {401, 403, 16}
\* The operation in progress has ended.
Done == pc = "idle" /\ outcome.kind # "none"

\* No call made yet, no handle, nothing cached.
InitShared ==
    /\ auth_changes = 0
    /\ client = 0
    /\ handles = << >>
    /\ pc = "idle"
    /\ caller = "execute"
    /\ rpc_id = RPC_LIST_NOTEBOOKS
    /\ auth_retried = FALSE
    /\ server_retry = 0
    /\ outcome = NoOutcome
    /\ log = << >>
    /\ lastReq = NoRequest
    /\ lastBody = << >>
    /\ lastFile = NoBundle("unread")
    /\ conversation_cache = << >>
    /\ reqid_counter = REQID_MIN
    /\ reqids = << >>
    /\ uuids = 0
    /\ answered = << >>
    /\ returned = << >>
    /\ fetches = 0
    /\ ops = 0

InitCall == InitShared /\ q = NoQuery

InitExecutor ==
    /\ cookies = "ckA"
    /\ csrf_token = "tokA"
    /\ session_id = "sidA"
    /\ disk = Bundle("ckA", "tokA", "sidA")
    /\ InitCall

\* No protocol function applied on its own.
NoCall == [fn |-> "none", applied |-> FALSE, input |-> << >>, rpc_id |-> "", out |-> << >>]
Call(fn, input, rpc) == [NoCall EXCEPT !.fn = fn, !.input = input, !.rpc_id = rpc]

\* A result dict: its status, whether it holds an error string, its hint
\* ("" for no hint field), and the except clause that made it.
Result(status, error, hint, clause) ==
    [status |-> status, error |-> error, hint |-> hint, clause |-> clause]
NoResult == Result("", FALSE, "", "")

\* The state of the tool layer: the invocation in progress (or the last
\* one), whether server._client is set, the load_tokens calls and the
\* landing-page fetches of the invocation, and for check_auth the page a
\* fetch with the stored cookies gets.
NoTool ==
    [name |-> "none", id |-> << >>, arg |-> << >>, phase |-> "none", result |-> NoResult,
     raised |-> FALSE, installed |-> FALSE, loads |-> 0, fetched |-> FALSE,
     file |-> NoBundle("unread"), page |-> Page("none", "", "")]
ToolState(name, id, arg, phase, result) ==
    [NoTool EXCEPT !.name = name, !.id = id, !.arg = arg, !.phase = phase,
                   !.result = result, !.installed = tool.installed]


Init == InitExecutor /\ tracing = TRUE /\ proto = NoCall /\ tool = NoTool
InitAsk == InitExecutor /\ tracing = FALSE /\ proto = NoCall /\ tool = NoTool

(***************************************************************************)
(* _get_client: the handle is created lazily, with the cookies of the      *)
(* moment, and reused until self._client is reset to None.                 *)
(***************************************************************************)
NewHandle == [cookies |-> cookies, open |-> TRUE, made_at |-> auth_changes]
ClientAfterGet == IF client = 0 THEN Len(handles) + 1 ELSE client
HandlesAfterGet == IF client = 0 THEN Append(handles, NewHandle) ELSE handles

(***************************************************************************)
(* execute: a caller starts _call_rpc(rpc_id, params) with the default     *)
(* _auth_retried = False and _server_retry = 0.                            *)
(***************************************************************************)
StartCall(who, rpc) ==
    /\ caller' = who
    /\ rpc_id' = rpc
    /\ auth_retried' = FALSE
    /\ server_retry' = 0
    /\ outcome' = NoOutcome
    /\ log' = << >>
    /\ lastReq' = NoRequest
    /\ lastBody' = << >>
    /\ lastFile' = NoBundle("unread")

Execute ==
    /\ pc = "idle"
    /\ ops < MaxOps
    /\ ops' = ops + 1
    /\ \E rpc \in RpcIds : StartCall("execute", rpc)
    /\ pc' = "send"
    /\ UNCHANGED <<authVars, client, handles, disk, askVars>>

(***************************************************************************)
(* _call_rpc, one attempt: get the handle, build body and URL from the     *)
(* current token and session id, post, and act on the response.            *)
(***************************************************************************)
\* The part every attempt shares: lines 225-230.
Post ==
    /\ client' = ClientAfterGet
    /\ handles' = HandlesAfterGet
    /\ lastReq' = Request("batch", rpc_id, csrf_token, session_id, ClientAfterGet)

\* _extract_source_ids of the notebook data a get_notebook call returned:
\* result value v stands for a notebook with v sources.
\* (First stopping after the first source.)
extract_source_ids_first(value) == IF value.n >= 1 THEN <<"s1">> ELSE << >>
extract_source_ids(value) ==
    IF value = JNum(1) THEN <<"s1">>
    ELSE IF value = JNum(2) THEN <<"s1", "s2">>
    ELSE << >>

\* _call_rpc returns value: to execute's caller, or into query() at line 556.
\* _call_rpc's frame (its keyword arguments) ends with the return.
Return(value) ==
    /\ auth_retried' = FALSE
    /\ server_retry' = 0
    /\ IF caller = "query"
       THEN /\ q' = [q EXCEPT !.nb_data = value,
                               !.source_ids = extract_source_ids(value)]
            /\ pc' = "q_send"
            /\ outcome' = outcome
       ELSE /\ outcome' = Outcome("result", value, 0, FALSE, "")
            /\ pc' = "idle"
            /\ q' = q

\* add_url_source and add_text_source wrap _call_rpc in a try whose
\* `except httpx.TimeoutException` returns a dict with status "timeout".
\* (First the wrapper that lets the timeout through.)
add_source_outcome_raising(exc) == exc
add_source_outcome(exc) ==
    IF exc.kind = "TimeoutException"
    THEN Outcome("timeout_dict", NoneValue, 0, FALSE, "Timed out but may have succeeded.")
    ELSE exc
Surfaced(exc) == IF caller = "add_source" THEN add_source_outcome(exc) ELSE exc

\* The exceptions of the transport: for the add-source methods a timeout is
\* told apart from the others, every other caller treats them alike.
TransportKinds ==
    IF caller = "add_source" THEN {"TransportError", "TimeoutException"}
    ELSE {"TransportError"}

\* _call_rpc raises exc; query() catches nothing.
Raise(exc) ==
    /\ outcome' = Surfaced(exc)
    /\ pc' = "idle"
    /\ q' = NoQuery

\* min(RETRY_BASE_DELAY * 2 ** _server_retry, RETRY_MAX_DELAY)
Min(a, b) == IF a <= b THEN a ELSE b
RetryDelay(n) == Min(RETRY_BASE_DELAY * (2 ^ n), RETRY_MAX_DELAY)

\* if status in config.RETRYABLE_STATUS_CODES
\* (First the test that takes every 5xx status for retryable.)
IsRetryableAny5xx(status) == status = 429 \/ status >= 500
IsRetryable(status) == status \in RETRYABLE_STATUS_CODES
\* if _server_retry < config.MAX_RETRIES (and with <= in place of <)
RetriesRemainInclusive(n) == n <= MAX_RETRIES
RetriesRemain(n) == n < MAX_RETRIES
\* if status in (401, 403) and not _auth_retried
IsAuthStatus(status, retried) == status \in {401, 403} /\ ~retried
\* The exceptions _call_rpc raises itself.
ServerError(status) == APIError("Server error after attempts", status)
HttpError(status) == APIError("HTTP", status)
ExpiredAfterRetry == AuthenticationError("Authentication expired after retry.")


\* result = extract_rpc_result(parsed, rpc_id); return result
\* The call returning None whatever the response held.
DecodedResultDropped(body, rpc) == NoneValue
DecodedResult(body, rpc) == extract_rpc_result(body, rpc).value
Received(body) == IF tracing THEN body ELSE lastBody

\* HTTP 200 whose matching entry holds a result (or no entry matches).
call_rpc_ok ==
    /\ pc = "send"
    /\ \E body \in OkBodies(rpc_id) :
         /\ ~extract_rpc_result(body, rpc_id).signal
         /\ Return(DecodedResult(body, rpc_id))
         /\ lastBody' = Received(body)
    /\ Post
    /\ log' = Logged(<<Event("send", 200)>>)
    /\ UNCHANGED <<askRest, authVars, disk, caller, rpc_id, lastFile, ops>>

\* A retryable status while retries remain: sleep, then call again.
call_rpc_server_retry ==
    /\ pc = "send"
    /\ \E status \in ErrorStatuses :
         /\ IsRetryable(status)
         /\ RetriesRemain(server_retry)
         /\ log' = Logged(<<Event("send", status),
                            Event("sleep", RetryDelay(server_retry))>>)
    /\ Post
    /\ server_retry' = server_retry + 1
    /\ UNCHANGED <<seenVars, askVars, authVars, disk, pc, caller, rpc_id, auth_retried, outcome, ops>>

\* A retryable status with the retries used up.
call_rpc_server_exhausted ==
    /\ pc = "send"
    /\ \E status \in ErrorStatuses :
         /\ IsRetryable(status)
         /\ ~RetriesRemain(server_retry)
         /\ log' = Logged(<<Event("send", status)>>)
         /\ Raise(ServerError(status))
    /\ Post
    /\ UNCHANGED <<seenVars, askRest, authVars, disk, caller, rpc_id, auth_retried, server_retry, ops>>

\* HTTP 401/403 on a call not yet auth-retried: on to the refresh.
call_rpc_auth_status ==
    /\ pc = "send"
    /\ \E status \in ErrorStatuses :
         /\ ~IsRetryable(status)
         /\ IsAuthStatus(status, auth_retried)
         /\ log' = Logged(<<Event("send", status)>>)
    /\ Post
    /\ pc' = "refresh"
    /\ UNCHANGED <<seenVars, askVars, authVars, disk, caller, rpc_id, auth_retried, server_retry, outcome, ops>>

\* Any other error status: raise APIError(f"HTTP {status}: ...").
call_rpc_http_error ==
    /\ pc = "send"
    /\ \E status \in ErrorStatuses :
         /\ ~IsRetryable(status)
         /\ ~IsAuthStatus(status, auth_retried)
         /\ log' = Logged(<<Event("send", status)>>)
         /\ Raise(HttpError(status))
    /\ Post
    /\ UNCHANGED <<seenVars, askRest, authVars, disk, caller, rpc_id, auth_retried, server_retry, ops>>

\* HTTP 200 whose matching entry carries the error signature.
call_rpc_auth_expired ==
    /\ pc = "send"
    /\ \E body \in OkBodies(rpc_id) :
         /\ extract_rpc_result(body, rpc_id).signal
         /\ lastBody' = Received(body)
    /\ Post
    /\ log' = Logged(<<Event("send", RpcError16)>>)
    /\ IF ~auth_retried
       THEN pc' = "refresh" /\ outcome' = outcome /\ q' = q
       ELSE Raise(ExpiredAfterRetry)
    /\ UNCHANGED <<askRest, authVars, disk, caller, rpc_id, auth_retried, server_retry,
                   lastFile, ops>>

\* client.post raises (timeout, connection error): no except clause names it.
call_rpc_transport_error ==
    /\ pc = "send"
    /\ Post
    /\ log' = Logged(<<Event("send_raised", 0)>>)
    /\ \E kind \in TransportKinds : Raise(RawError(kind, 0))
    /\ UNCHANGED <<seenVars, askRest, authVars, disk, caller, rpc_id, auth_retried, server_retry, ops>>

(***************************************************************************)
(* _retry_after_auth_refresh: refresh the token from the landing page; on  *)
(* an AuthenticationError fall back to the credential file; then reset     *)
(* the handle and call again with _auth_retried = True.                    *)
(***************************************************************************)
\* _persist_tokens: save_tokens, any exception swallowed.
PersistedFiles(c, t, s) == {disk, Bundle(c, t, s)}

\* The keyword arguments of the call at lines 295-298.
\* The resend without the mark that the auth retry was used.
ResendAuthRetriedUnmarked == FALSE
ResendAuthRetried == TRUE
\* (First the resend that hands the counter on.)
ResendServerRetryKept == server_retry
ResendServerRetry == 0

Resend ==
    /\ client' = 0
    /\ auth_retried' = ResendAuthRetried
    /\ server_retry' = ResendServerRetry
    /\ pc' = "send"

\* The count of changes after cookies, token and session id became c, t, s.
ChangesAfter(c, t, s) ==
    IF <<c, t, s>> # <<cookies, csrf_token, session_id>>
    THEN auth_changes + 1 ELSE auth_changes

\* self.csrf_token = csrf; self._session_id = sid if one was found.
RefreshedToken(page) == page.csrf
\* (First the session id assigned whether or not one was found.)
RefreshedSessionAssigned(page) == page.sid
RefreshedSession(page) == IF page.sid # "" THEN page.sid ELSE session_id

\* _persist_tokens: save_tokens sits in a try whose `except Exception: pass`
\* swallows every failure, so the file is left as it was and nothing is raised.
\* (First the save without the guard: a file left as it was is an exception.)
persist_tokens_unguarded(file, saved) == file # saved
persist_tokens_raises(file, saved) == FALSE

\* _refresh_auth_tokens succeeds: token replaced, session id when found.
retry_refresh_ok ==
    /\ pc = "refresh"
    /\ \E page \in Pages :
         /\ page.outcome = "ok"
         /\ page.csrf # ""
         /\ csrf_token' = RefreshedToken(page)
         /\ session_id' = RefreshedSession(page)
         /\ auth_changes' = ChangesAfter(cookies, RefreshedToken(page),
                                         RefreshedSession(page))
         /\ \E file \in PersistedFiles(cookies, RefreshedToken(page), RefreshedSession(page)) :
              /\ disk' = file
              /\ IF persist_tokens_raises(file, Bundle(cookies, RefreshedToken(page),
                                                       RefreshedSession(page)))
                 THEN /\ outcome' = RawError("OSError", 0)
                      /\ pc' = "idle"
                      /\ UNCHANGED <<client, auth_retried, server_retry>>
                 ELSE /\ Resend
                      /\ UNCHANGED outcome
    /\ log' = Logged(<<Event("refresh_ok", 0)>>)
    /\ UNCHANGED <<askVars, cookies, handles, caller, rpc_id, lastReq,
                   lastBody, lastFile, ops>>

\* The credential file as load_tokens finds it: as the Executor last wrote it
\* (disk), or as an external login (or anything else) rewrote it since.
FilesAtLoad == ExternalFiles \cup {disk}
Read(file) == IF tracing THEN file ELSE lastFile

\* The page fetch ends in an AuthenticationError.
RefreshFails(page) ==
    \/ page.outcome = "redirect"
    \/ page.outcome = "non200"
    \/ page.outcome = "ok" /\ page.csrf = ""

\* The AuthenticationError _refresh_auth_tokens raises.
RefreshError(page) ==
    AuthenticationError(IF page.outcome = "redirect" THEN "redirected to login"
                        ELSE IF page.outcome = "non200" THEN "page fetch failed"
                        ELSE "no token in page")

\* if disk_tokens and disk_tokens.cookies
Usable(tokens) == tokens.kind = "bundle" /\ tokens.cookies # ""
\* Lines 287-289: cookies, token and session id taken from the loaded bundle
\* (and with the session id left as it was).
ReloadedAuthKeepSession(tokens) == <<tokens.cookies, tokens.csrf_token, session_id>>
ReloadedAuth(tokens) == <<tokens.cookies, tokens.csrf_token, tokens.session_id>>

\* Refresh fails, the credential file holds a bundle with cookies.
retry_reload_ok ==
    /\ pc = "refresh"
    /\ \E page \in Pages : RefreshFails(page)
    /\ \E file \in FilesAtLoad :
         /\ ~load_tokens(file).raises
         /\ Usable(load_tokens(file).tokens)
         /\ cookies' = ReloadedAuth(load_tokens(file).tokens)[1]
         /\ csrf_token' = ReloadedAuth(load_tokens(file).tokens)[2]
         /\ session_id' = ReloadedAuth(load_tokens(file).tokens)[3]
         /\ auth_changes' = ChangesAfter(ReloadedAuth(load_tokens(file).tokens)[1],
                                         ReloadedAuth(load_tokens(file).tokens)[2],
                                         ReloadedAuth(load_tokens(file).tokens)[3])
         /\ lastFile' = Read(file)
    /\ log' = Logged(<<Event("refresh_auth_error", 0), Event("load_bundle", 0)>>)
    /\ Resend
    /\ UNCHANGED <<askVars, handles, disk, caller, rpc_id, outcome, lastReq, lastBody, ops>>

\* Refresh fails, load_tokens returns None: the AuthenticationError is re-raised.
retry_reload_none ==
    /\ pc = "refresh"
    /\ \E page \in Pages : RefreshFails(page) /\ Raise(RefreshError(page))
    /\ \E file \in FilesAtLoad :
         /\ ~load_tokens(file).raises
         /\ ~Usable(load_tokens(file).tokens)
         /\ lastFile' = Read(file)
    /\ log' = Logged(<<Event("refresh_auth_error", 0), Event("load_none", 0)>>)
    /\ UNCHANGED <<askRest, authVars, client, handles, disk, caller, rpc_id, auth_retried,
                   server_retry, lastReq, lastBody, ops>>

\* Refresh fails, load_tokens itself raises (a JSON value that is no object).
retry_reload_raises ==
    /\ pc = "refresh"
    /\ \E page \in Pages : RefreshFails(page)
    /\ \E file \in FilesAtLoad :
         /\ load_tokens(file).raises
         /\ lastFile' = Read(file)
    /\ log' = Logged(<<Event("refresh_auth_error", 0), Event("load_raises", 0)>>)
    /\ Raise(RawError("AttributeError", 0))
    /\ UNCHANGED <<askRest, authVars, client, handles, disk, caller, rpc_id, auth_retried,
                   server_retry, lastReq, lastBody, ops>>

\* The page fetch itself raises a transport error: except AuthenticationError
\* does not catch it, load_tokens is not called.
retry_refresh_transport ==
    /\ pc = "refresh"
    /\ \E page \in Pages : page.outcome = "transport"
    /\ log' = Logged(<<Event("refresh_transport_error", 0)>>)
    /\ \E kind \in TransportKinds : Raise(RawError(kind, 0))
    /\ UNCHANGED <<askRest, authVars, client, handles, disk, caller, rpc_id, auth_retried,
                   server_retry, lastReq, lastBody, lastFile, ops>>

(***************************************************************************)
(* query (ask): take the handle, fetch the source ids through _call_rpc    *)
(* when none are given, then send the streaming request once.              *)
(***************************************************************************)
\* Conversation ids a caller can pass: none, one it made up, one an earlier
\* ask() returned.
ConvArgs == {NoConv, ForeignConv} \cup DOMAIN returned

\* self._conversation_cache.get(conversation_id, [])
Turns(cache, conv) == IF conv \in DOMAIN cache THEN cache[conv] ELSE << >>

\* Lines 551-556: client = self._get_client(), then get_notebook if needed.
AskFrame(text, src, conv) ==
    /\ q' = QFrame(ClientAfterGet, text, src, conv)
    /\ pc' = IF src = SourceNone THEN "send" ELSE "q_send"
    /\ client' = ClientAfterGet
    /\ handles' = HandlesAfterGet
    /\ caller' = "query"
    /\ rpc_id' = RPC_GET_NOTEBOOK
    /\ auth_retried' = FALSE
    /\ server_retry' = 0
    /\ outcome' = NoOutcome
    /\ log' = << >>
    /\ lastReq' = NoRequest
    /\ lastBody' = << >>
    /\ lastFile' = NoBundle("unread")

Ask ==
    /\ pc = "idle"
    /\ ops < MaxAsks
    /\ ops' = ops + 1
    /\ \E text \in Questions, src \in SourceArgs, conv \in ConvArgs :
         /\ src = SourceNone => fetches < MaxFetches
         /\ fetches' = IF src = SourceNone THEN fetches + 1 ELSE fetches
         /\ AskFrame(text, src, conv)
    /\ UNCHANGED <<authVars, disk, conversation_cache, reqid_counter, reqids, uuids, answered,
                   returned, tracing, proto, tool>>

\* _build_conversation_history: per stored turn the record [answer, None, 2],
\* then the record [query, None, 1]; None when there is no stored turn.
\* (First the loop with the two appends in the other order.)
RECURSIVE HistoryRecordsQuestionFirst(_)
HistoryRecordsQuestionFirst(turns) ==
    IF turns = << >> THEN << >>
    ELSE << <<Head(turns).query, NoneValue, 1>>,
            <<Head(turns).answer, NoneValue, 2>> >>
         \o HistoryRecordsQuestionFirst(Tail(turns))
RECURSIVE HistoryRecords(_)
HistoryRecords(turns) ==
    IF turns = << >> THEN << >>
    ELSE << <<Head(turns).answer, NoneValue, 2>>,
            <<Head(turns).query, NoneValue, 1>> >> \o HistoryRecords(Tail(turns))

build_conversation_history(cache, conv) ==
    IF Turns(cache, conv) = << >> THEN NullHistory
    ELSE History(HistoryRecords(Turns(cache, conv)))

\* _cache_turn: append ConversationTurn(query, answer, len + 1).
\* (First every turn numbered 1.)
ConversationTurnFirst(text, answer, n) ==
    [query |-> text, answer |-> answer, turn_number |-> 1]
ConversationTurn(text, answer, n) == [query |-> text, answer |-> answer, turn_number |-> n]

\* (First with the list replaced by the new turn instead of extended.)
cache_turn_replacing(cache, conv, text, answer) ==
    (conv :> <<ConversationTurn(text, answer, Len(Turns(cache, conv)) + 1)>>) @@ cache
\* (And with the new turn put in front of the stored ones.)
cache_turn_in_front(cache, conv, text, answer) ==
    (conv :> (<<ConversationTurn(text, answer, Len(Turns(cache, conv)) + 1)>>
              \o Turns(cache, conv))) @@ cache
cache_turn(cache, conv, text, answer) ==
    (conv :> Append(Turns(cache, conv),
                    ConversationTurn(text, answer, Len(Turns(cache, conv)) + 1)))
    @@ cache

\* Lines 558-563 and 576: the values the streaming request is built from.
\* (First with an id that has no stored turn taken for a new conversation.)
IsNewWhenUnknown ==
    q.conversation_id = NoConv \/ Turns(conversation_cache, q.conversation_id) = << >>
IsNew == q.conversation_id = NoConv
ConvId == IF IsNew THEN uuids + 1 ELSE q.conversation_id
AskHistory == IF IsNew THEN NullHistory
              ELSE build_conversation_history(conversation_cache, ConvId)
\* (First the counter used as it stands.)
NextReqidStale == reqid_counter
NextReqid == reqid_counter + REQID_STEP

\* Lines 565-579: the request goes over the handle taken at entry.
AskPost ==
    /\ uuids' = IF IsNew THEN uuids + 1 ELSE uuids
    /\ reqid_counter' = NextReqid
    /\ reqids' = Append(reqids, NextReqid)
    /\ lastReq' = [Request("query", "", csrf_token, session_id, q.client) EXCEPT
                     !.reqid = NextReqid, !.sources = q.source_ids,
                     !.query = q.query_text, !.history = AskHistory,
                     !.conversation_id = ConvId, !.given = q.conversation_id]
    /\ log' = Logged(<<Event("ask", 0)>>)
    /\ q' = NoQuery
    /\ pc' = "idle"

Bump(f, conv) == (conv :> (IF conv \in DOMAIN f THEN f[conv] + 1 ELSE 1)) @@ f

\* Lines 582-593 on a response with status 200.
CacheAfter(answer) ==
    IF answer # "" THEN cache_turn(conversation_cache, ConvId, q.query_text, answer)
    ELSE conversation_cache

AskResult(answer) ==
    [Outcome("answer", NoneValue, 200, FALSE, "") EXCEPT
       !.answer = answer,
       !.conversation_id = ConvId,
       !.turn_number = Len(Turns(CacheAfter(answer), ConvId)),
       !.is_follow_up = ~IsNew]

ask_ok ==
    /\ pc = "q_send"
    /\ AskPost
    /\ \E answer \in Answers :
         /\ conversation_cache' = CacheAfter(answer)
         /\ outcome' = AskResult(answer)
         /\ answered' = IF answer # "" THEN Bump(answered, ConvId) ELSE answered
    /\ returned' = Bump(returned, ConvId)
    /\ UNCHANGED <<seenVars, authVars, client, handles, disk, caller, rpc_id, auth_retried,
                   server_retry, fetches, tracing, proto, tool, ops>>

\* resp.raise_for_status() raises httpx.HTTPStatusError: nothing catches it.
ask_http_error ==
    /\ pc = "q_send"
    /\ AskPost
    /\ \E status \in AskErrorStatuses : outcome' = RawError("HTTPStatusError", status)
    /\ UNCHANGED <<seenVars, authVars, client, handles, disk, caller, rpc_id, auth_retried,
                   server_retry, conversation_cache, answered, returned,
                   fetches, tracing, proto, tool, ops>>

\* client.post raises (timeout, connection error).
ask_transport_error ==
    /\ pc = "q_send"
    /\ AskPost
    /\ outcome' = RawError("TransportError", 0)
    /\ UNCHANGED <<seenVars, authVars, client, handles, disk, caller, rpc_id, auth_retried,
                   server_retry, conversation_cache, answered, returned,
                   fetches, tracing, proto, tool, ops>>

(***************************************************************************)
(* Two query() calls on one Executor, each in a thread of its own. A       *)
(* thread may be switched out between any two reads or writes of the       *)
(* Executor's fields; callers that serialize let one call end before the   *)
(* other starts. q holds whether the callers serialize and the frame of    *)
(* each call.                                                              *)
(***************************************************************************)
Threads == {1, 2}
Frame(at, text, id, history) ==
    [pc |-> at, query_text |-> text, conversation_id |-> id, history |-> history,
     counter |-> 0, reqid |-> 0, answer |-> "", n |-> 0, turn_number |-> 0,
     raised |-> FALSE]
NoFrame == Frame("init", "", NoConv, NullHistory)
Underway(t) == q.frames[t].pc \notin {"init", "done"}
\* A thread takes a step when the callers do not serialize, or when no other
\* call is under way.
MayRun(t) == ~q.serialized \/ \A u \in Threads \ {t} : ~Underway(u)
At(t, pc_t) == MayRun(t) /\ q.frames[t].pc = pc_t
SetFrame(t, frame) == q' = [q EXCEPT !.frames[t] = frame]
QuestionOf(t) == IF t = 1 THEN "q1" ELSE "q2"
sharedRest == <<authVars, disk, pc, caller, rpc_id, auth_retried, server_retry, outcome, log,
                lastReq, seenVars, answered, returned, fetches, tracing, proto, tool, ops>>

\* Lines 551-563: the handle, the conversation id and the history.
thread_start(t) ==
    /\ At(t, "init")
    /\ \E conv \in {NoConv, ForeignConv} :
         LET id == IF conv = NoConv THEN uuids + 1 ELSE conv
         IN /\ uuids' = IF conv = NoConv THEN uuids + 1 ELSE uuids
            /\ SetFrame(t, Frame("load_counter", QuestionOf(t), id,
                                 IF conv = NoConv THEN NullHistory
                                 ELSE build_conversation_history(conversation_cache, id)))
    /\ client' = ClientAfterGet
    /\ handles' = HandlesAfterGet
    /\ UNCHANGED <<sharedRest, conversation_cache, reqid_counter, reqids>>

\* Line 576, self._reqid_counter += 100000: the read ...
thread_load_counter(t) ==
    /\ At(t, "load_counter")
    /\ SetFrame(t, [q.frames[t] EXCEPT !.pc = "store_counter", !.counter = reqid_counter])
    /\ UNCHANGED <<sharedRest, client, handles, conversation_cache, reqid_counter, reqids,
                   uuids>>

\* ... and the write.
thread_store_counter(t) ==
    /\ At(t, "store_counter")
    /\ reqid_counter' = q.frames[t].counter + REQID_STEP
    /\ SetFrame(t, [q.frames[t] EXCEPT !.pc = "post"])
    /\ UNCHANGED <<sharedRest, client, handles, conversation_cache, reqids, uuids>>

\* Lines 577-579: the URL takes self._reqid_counter as it is now, and the
\* request is sent.
thread_post(t) ==
    /\ At(t, "post")
    /\ reqids' = Append(reqids, reqid_counter)
    /\ SetFrame(t, [q.frames[t] EXCEPT !.pc = "wait", !.reqid = reqid_counter])
    /\ UNCHANGED <<sharedRest, client, handles, conversation_cache, reqid_counter, uuids>>

\* Lines 579-580: the request fails; query() raises.
thread_raise(t) ==
    /\ At(t, "wait")
    /\ SetFrame(t, [q.frames[t] EXCEPT !.pc = "done", !.raised = TRUE])
    /\ UNCHANGED <<sharedRest, client, handles, conversation_cache, reqid_counter, reqids,
                   uuids>>

\* Lines 582-585: the answer is decoded; only a non-empty one is stored.
thread_response(t) ==
    /\ At(t, "wait")
    /\ \E answer \in Answers :
         SetFrame(t, [q.frames[t] EXCEPT
                        !.pc = IF answer # "" THEN "cache_check" ELSE "return",
                        !.answer = answer])
    /\ UNCHANGED <<sharedRest, client, handles, conversation_cache, reqid_counter, reqids,
                   uuids>>

\* Lines 610-611: an empty list is put under an id that has none.
thread_cache_check(t) ==
    /\ At(t, "cache_check")
    /\ conversation_cache' =
         IF q.frames[t].conversation_id \in DOMAIN conversation_cache
         THEN conversation_cache
         ELSE (q.frames[t].conversation_id :> << >>) @@ conversation_cache
    /\ SetFrame(t, [q.frames[t] EXCEPT !.pc = "cache_len"])
    /\ UNCHANGED <<sharedRest, client, handles, reqid_counter, reqids, uuids>>

\* Line 612: n = len(...) + 1.
thread_cache_len(t) ==
    /\ At(t, "cache_len")
    /\ SetFrame(t, [q.frames[t] EXCEPT
                      !.pc = "cache_append",
                      !.n = Len(conversation_cache[q.frames[t].conversation_id]) + 1])
    /\ UNCHANGED <<sharedRest, client, handles, conversation_cache, reqid_counter, reqids,
                   uuids>>

\* Lines 613-615: the turn is appended to the list as it is now.
thread_cache_append(t) ==
    /\ At(t, "cache_append")
    /\ conversation_cache' =
         [conversation_cache EXCEPT
            ![q.frames[t].conversation_id] =
               Append(@, ConversationTurn(q.frames[t].query_text, q.frames[t].answer,
                                          q.frames[t].n))]
    /\ SetFrame(t, [q.frames[t] EXCEPT !.pc = "return"])
    /\ UNCHANGED <<sharedRest, client, handles, reqid_counter, reqids, uuids>>

\* Lines 587-593: turn_number is the length of the list as it is now.
thread_return(t) ==
    /\ At(t, "return")
    /\ SetFrame(t, [q.frames[t] EXCEPT
                      !.pc = "done",
                      !.turn_number = Len(Turns(conversation_cache,
                                                q.frames[t].conversation_id))])
    /\ UNCHANGED <<sharedRest, client, handles, conversation_cache, reqid_counter, reqids,
                   uuids>>

InitThreads ==
    /\ cookies = "ckA"
    /\ csrf_token = "tokA"
    /\ session_id = "sidA"
    /\ disk = Bundle("ckA", "tokA", "sidA")
    /\ InitShared
    /\ tracing = FALSE
    /\ proto = NoCall
    /\ tool = NoTool
    /\ \E serialized \in BOOLEAN :
         q = [serialized |-> serialized, frames |-> [t \in Threads |-> NoFrame]]

NextThreads ==
    \/ \E t \in Threads : thread_start(t)
    \/ \E t \in Threads : thread_load_counter(t)
    \/ \E t \in Threads : thread_store_counter(t)
    \/ \E t \in Threads : thread_post(t)
    \/ \E t \in Threads : thread_raise(t)
    \/ \E t \in Threads : thread_response(t)
    \/ \E t \in Threads : thread_cache_check(t)
    \/ \E t \in Threads : thread_cache_len(t)
    \/ \E t \in Threads : thread_cache_append(t)
    \/ \E t \in Threads : thread_return(t)

SpecThreads == InitThreads /\ [][NextThreads]_vars

(***************************************************************************)
(* The protocol functions on their own: each is applied to an input drawn  *)
(* from a bounded set, and proto keeps the input and the output.           *)
(***************************************************************************)
\* Sequences of at most n elements of S.
RECURSIVE SeqsUpTo(_, _)
SeqsUpTo(S, n) ==
    IF n = 0 THEN {<< >>}
    ELSE SeqsUpTo(S, n - 1) \cup {Append(x, e) : x \in SeqsUpTo(S, n - 1), e \in S}

\* item[2] of an entry: texts that parse, texts that do not, and values that
\* are no string.
ResultValues == {JNum(1), JList(<<JNum(1), JStr(<<"a">>)>>), JStr(<<"a", "\"">>)}
RawTexts == {<<"plain">>, <<"[", "1">>}
NonStrings == {JNull, JList(<<JNum(2)>>)}
Field2 == {ResultText(v) : v \in ResultValues} \cup {JStr(x) : x \in RawTexts} \cup NonStrings

\* Entries extract_rpc_result tests for the signature or for a result.
TargetEntries(rpc) ==
    {Item("wrb.fr", rpc, f, JNull, "generic") : f \in Field2}
    \cup {Item("wrb.fr", rpc, f, ErrorCodes, "generic") : f \in {JNull, ResultText(JNum(1))}}
    \cup { Item("wrb.fr", rpc, ResultText(JNum(1)), ErrorCodes, "other"),
           Item("wrb.fr", rpc, ResultText(JNum(1)), JNum(RpcError16), "generic"),
           Item("wrb.fr", rpc, ResultText(JNum(1)), JList(<<JNum(7)>>), "generic"),
           JList(<<JStr(<<"wrb.fr">>), JStr(<<rpc>>), ResultText(JNum(1)), JNull, JNull,
                   ErrorCodes>>) }

\* Entries it passes over.
SkippedEntries(rpc) ==
    { Item("wrb.fr", "other", ResultText(JNum(2)), ErrorCodes, "generic"),
      Item("di", rpc, ResultText(JNum(2)), JNull, "generic"),
      JList(<<JStr(<<"wrb.fr">>), JStr(<<rpc>>)>>),
      JStr(<<"wrb.fr">>) }

\* Entries that follow a passed-over entry in the same frame.
FollowingEntries(rpc) ==
    { Item("wrb.fr", rpc, ResultText(JList(<<JNum(1), JStr(<<"a">>)>>)), JNull, "generic"),
      Item("wrb.fr", rpc, JStr(<<"plain">>), JNull, "generic"),
      Item("wrb.fr", rpc, ResultText(JNum(1)), ErrorCodes, "generic") }

\* Frames: one entry, a passed-over entry before another entry, or a value
\* that is no list.
Chunks(rpc) ==
    {JList(<<e>>) : e \in TargetEntries(rpc) \cup SkippedEntries(rpc)}
    \cup {JList(<<e1, e2>>) : e1 \in SkippedEntries(rpc), e2 \in FollowingEntries(rpc)}
    \cup {JNum(2), JList(<< >>)}

ExtractInputs == SeqsUpTo(Chunks(RPC_GET_NOTEBOOK), MaxFrames)

apply_extract_rpc_result ==
    /\ proto.fn = "extract_rpc_result"
    /\ ~proto.applied
    /\ proto' = [proto EXCEPT !.applied = TRUE,
                              !.out = extract_rpc_result(proto.input, proto.rpc_id)]
    /\ UNCHANGED <<authVars, client, handles, disk, pc, caller, rpc_id, auth_retried,
                   server_retry, outcome, log, lastReq, seenVars, conversation_cache,
                   reqid_counter, reqids, uuids, q, answered, returned, fetches,
                   tracing, tool, ops>>

(***************************************************************************)
(* protocol.parse_response.  A body is the sequence of its lines, each a   *)
(* text; the anti-hijacking prefix is one symbol.                          *)
(***************************************************************************)
XSSI == ")]}'"

\* response_text[4:] when the text starts with the prefix (lines 112-113).
StripPrefix(body) ==
    IF body # << >> /\ body[1] # << >> /\ body[1][1] = XSSI
    THEN <<Tail(body[1])>> \o Tail(body)
    ELSE body

\* int(line) succeeds.
IsIntLine(line) == Len(line) = 1 /\ IsNumberWord(line[1])

\* The loop of lines 119-139: results after the lines from i on.
RECURSIVE ParseLines(_, _, _)
ParseLines(lines, i, results) ==
    IF i > Len(lines) THEN results
    ELSE IF lines[i] = << >> THEN ParseLines(lines, i + 1, results)
    ELSE IF IsIntLine(lines[i])
         THEN IF i + 1 <= Len(lines) /\ json_loads(lines[i + 1]).ok
              THEN ParseLines(lines, i + 2, Append(results, json_loads(lines[i + 1]).value))
              ELSE ParseLines(lines, i + 2, results)
    ELSE IF json_loads(lines[i]).ok
         THEN ParseLines(lines, i + 1, Append(results, json_loads(lines[i]).value))
    ELSE ParseLines(lines, i + 1, results)

parse_response(body) == ParseLines(StripPrefix(body), 1, << >>)

\* Lines of a body: blank, byte counts, JSON values, text that is no JSON.
FrameValues == {JList(<<JNum(1)>>), JList(<<JStr(<<"a">>)>>)}
BodyLines ==
    {<< >>, <<"5">>, <<"7">>, <<"[", "1">>} \cup {json_dumps(v) : v \in FrameValues}
Bodies ==
    SeqsUpTo(BodyLines, MaxLines)
    \cup {<<<<XSSI>> \o l>> \o b : l \in BodyLines, b \in SeqsUpTo(BodyLines, MaxLines - 1)}

apply_parse_response ==
    /\ proto.fn = "parse_response"
    /\ ~proto.applied
    /\ proto' = [proto EXCEPT !.applied = TRUE, !.out = parse_response(proto.input)]
    /\ UNCHANGED <<authVars, client, handles, disk, pc, caller, rpc_id, auth_retried,
                   server_retry, outcome, log, lastReq, seenVars, conversation_cache,
                   reqid_counter, reqids, uuids, q, answered, returned, fetches,
                   tracing, tool, ops>>

(***************************************************************************)
(* protocol.parse_query_response and _extract_answer_from_chunk.  A text   *)
(* is the sequence of its characters; the empty sequence stands for None   *)
(* and for "".                                                             *)
(***************************************************************************)
NoFragment == [text |-> << >>, is_answer |-> FALSE]

\* Lines 311-318: is_answer of an answer-shaped array.
IsAnswerType(first_elem) ==
    /\ Len(first_elem.items) > 4
    /\ first_elem.items[5].t = "list"
    /\ Len(first_elem.items[5].items) > 0
    /\ first_elem.items[5].items[Len(first_elem.items[5].items)] = JNum(1)

\* Lines 291-322 for one entry: the candidate it yields, NoFragment when the
\* loop goes on to the next entry.
FragmentOf(item) ==
    IF item.t # "list" \/ Len(item.items) < 3 THEN NoFragment
    ELSE IF item.items[1] # JStr(<<"wrb.fr">>) THEN NoFragment
    ELSE IF item.items[3].t # "str" THEN NoFragment
    ELSE LET inner == json_loads(item.items[3].chars) IN
         IF ~inner.ok THEN NoFragment
         ELSE IF inner.value.t # "list" \/ Len(inner.value.items) = 0 THEN NoFragment
         ELSE LET first_elem == inner.value.items[1] IN
              IF first_elem.t = "list" /\ Len(first_elem.items) > 0
              THEN IF first_elem.items[1].t = "str"
                      /\ Len(first_elem.items[1].chars) > MinTextLength
                   THEN [text |-> first_elem.items[1].chars,
                         is_answer |-> IsAnswerType(first_elem)]
                   ELSE NoFragment
              ELSE IF first_elem.t = "str" /\ Len(first_elem.chars) > MinTextLength
                   THEN [text |-> first_elem.chars, is_answer |-> FALSE]
              ELSE NoFragment

\* The loop over the entries (line 291): it returns at the first entry that
\* yields a candidate.
RECURSIVE FirstFragment(_)
FirstFragment(items) ==
    IF items = << >> THEN NoFragment
    ELSE IF FragmentOf(Head(items)).text # << >> THEN FragmentOf(Head(items))
    ELSE FirstFragment(Tail(items))

extract_answer_from_chunk(json_str) ==
    LET data == json_loads(json_str) IN
    IF ~data.ok THEN NoFragment
    ELSE IF data.value.t # "list" \/ Len(data.value.items) = 0 THEN NoFragment
    ELSE FirstFragment(data.value.items)

\* Lines 254-258 and 262-266: the longest texts after one more chunk.
Longest(best, f) ==
    IF f.text = << >> THEN best
    ELSE IF f.is_answer /\ Len(f.text) > Len(best.answer) THEN [best EXCEPT !.answer = f.text]
    ELSE IF ~f.is_answer /\ Len(f.text) > Len(best.thinking)
         THEN [best EXCEPT !.thinking = f.text]
    ELSE best

\* The loop of lines 243-267.
RECURSIVE QueryLines(_, _, _)
QueryLines(lines, i, best) ==
    IF i > Len(lines) THEN best
    ELSE IF lines[i] = << >> THEN QueryLines(lines, i + 1, best)
    ELSE IF IsIntLine(lines[i])
         THEN IF i + 1 <= Len(lines)
              THEN QueryLines(lines, i + 2, Longest(best, extract_answer_from_chunk(lines[i + 1])))
              ELSE QueryLines(lines, i + 2, best)
    ELSE QueryLines(lines, i + 1, Longest(best, extract_answer_from_chunk(lines[i])))

parse_query_response(body) ==
    LET best == QueryLines(StripPrefix(body), 1, [answer |-> << >>, thinking |-> << >>]) IN
    IF best.answer # << >> THEN best.answer ELSE best.thinking

\* A text of n characters c.
Chars(c, n) == [k \in 1 .. n |-> c]

\* An answer-shaped array of the given type, and the entry that carries it.
Shaped(text, type) == JList(<<JStr(text), JNull, JNull, JNull, JList(<<JNum(0), JNum(type)>>)>>)
Carrying(first_elem) == JList(<<JStr(<<"wrb.fr">>), JNull, ResultText(JList(<<first_elem>>))>>)

\* Entries of a streaming frame: type-1 and type-2 fragments of several
\* lengths, a bare string, and an entry under another tag.
Answer21 == Carrying(Shaped(Chars("a", MinTextLength + 1), 1))
Answer22 == Carrying(Shaped(Chars("b", MinTextLength + 2), 1))
Answer20 == Carrying(Shaped(Chars("c", MinTextLength), 1))
Thinking23 == Carrying(Shaped(Chars("t", MinTextLength + 3), 2))
Thinking24 == Carrying(Shaped(Chars("u", MinTextLength + 4), 2))
Bare25 == Carrying(JStr(Chars("s", MinTextLength + 5)))
OtherTag == JList(<<JStr(<<"di">>), JNum(1), JStr(<<"x">>)>>)

QueryFrames ==
    {JList(<<e>>) : e \in {Answer21, Answer22, Answer20, Thinking23, Thinking24, Bare25}}
    \cup { JList(<<OtherTag, Answer21>>), JList(<<Answer20, Thinking23>>),
           JList(<<Thinking23, Answer21>>), JList(<<Thinking23, Thinking24>>) }

QueryBodyLines == {<< >>, <<"5">>, <<"[", "1">>} \cup {json_dumps(f) : f \in QueryFrames}
QueryBodies ==
    SeqsUpTo(QueryBodyLines, MaxQueryLines)
    \cup {<<<<XSSI>>>> \o b : b \in SeqsUpTo(QueryBodyLines, MaxQueryLines - 1)}

apply_parse_query_response ==
    /\ proto.fn = "parse_query_response"
    /\ ~proto.applied
    /\ proto' = [proto EXCEPT !.applied = TRUE, !.out = parse_query_response(proto.input)]
    /\ UNCHANGED <<authVars, client, handles, disk, pc, caller, rpc_id, auth_retried,
                   server_retry, outcome, log, lastReq, seenVars, conversation_cache,
                   reqid_counter, reqids, uuids, q, answered, returned, fetches,
                   tracing, tool, ops>>

(***************************************************************************)
(* protocol.build_request_body.  The body is a text; an escape of a        *)
(* percent-encoding (a percent sign and two hex digits) is one symbol.     *)
(***************************************************************************)
\* quote with '&' taken for a safe character.
QuotedCharAmpersandSafe(c) ==
    CASE c = "[" -> "%5B" [] c = "]" -> "%5D" [] c = "," -> "%2C" [] c = "\"" -> "%22"
      [] c = "\\" -> "%5C" [] c = "=" -> "%3D" [] c = "%" -> "%25"
      [] c = " " -> "%20" [] c = "/" -> "%2F" [] c = "+" -> "%2B" [] OTHER -> c

\* urllib.parse.quote(c, safe='') of one character: the reserved characters
\* are escaped; letters, digits and "_.-~" are kept.
QuotedChar(c) ==
    CASE c = "[" -> "%5B" [] c = "]" -> "%5D" [] c = "," -> "%2C" [] c = "\"" -> "%22"
      [] c = "\\" -> "%5C" [] c = "&" -> "%26" [] c = "=" -> "%3D" [] c = "%" -> "%25"
      [] c = " " -> "%20" [] c = "/" -> "%2F" [] c = "+" -> "%2B" [] OTHER -> c

\* urllib.parse.quote(text, safe='')
quote(text) == [k \in 1 .. Len(text) |-> QuotedChar(text[k])]

\* [[[rpc_id, params_json, None, "generic"]]] (line 51)
Envelope(rpc, params_json) ==
    JList(<<JList(<<JList(<<JStr(rpc), JStr(params_json), JNull, JStr(<<"generic">>)>>)>>)>>)

\* The at= part is appended whatever the token.
AtPartAlways(token) == <<"&", "at", "=">> \o quote(token)

\* Lines 54-55 and 203-204: the at= part, joined with '&', for a token that
\* is not empty.
AtPart(token) == IF token # << >> THEN <<"&", "at", "=">> \o quote(token) ELSE << >>

\* "&".join(parts) + "&"
build_request_body(rpc, params, token) ==
    <<"f.req", "=">> \o quote(json_dumps(Envelope(rpc, json_dumps(params))))
    \o AtPart(token) \o <<"&">>

\* protocol.build_query_body: the envelope is [None, params_json].
build_query_body(params, token) ==
    <<"f.req", "=">> \o quote(json_dumps(JList(<<JNull, JStr(json_dumps(params))>>)))
    \o AtPart(token) \o <<"&">>

\* Strings of a parameter value, parameter values, method ids and tokens.
ParamChars == {"at", "&", "\"", "\\", "=", "%", " ", ","}
ParamStrings == SeqsUpTo(ParamChars, MaxChars)
ParamValues ==
    {JNull, JNum(2), JList(<< >>)}
    \cup {JStr(x) : x \in ParamStrings}
    \cup {JList(<<JStr(x), JNull, JList(<<JNum(2)>>)>>) : x \in ParamStrings}
MethodIds == {<<RPC_LIST_NOTEBOOKS>>, <<"r", "&", "\"", "=">>}
Tokens == {<< >>, <<"tok">>, <<"t", "/", "+", "&", "at", "=", "x">>}

apply_build_request_body ==
    /\ proto.fn = "build_request_body"
    /\ ~proto.applied
    /\ proto' = [proto EXCEPT !.applied = TRUE,
                              !.out = build_request_body(proto.input.rpc_id, proto.input.params,
                                                         proto.input.csrf_token)]
    /\ UNCHANGED <<authVars, client, handles, disk, pc, caller, rpc_id, auth_retried,
                   server_retry, outcome, log, lastReq, seenVars, conversation_cache,
                   reqid_counter, reqids, uuids, q, answered, returned, fetches,
                   tracing, tool, ops>>

apply_build_query_body ==
    /\ proto.fn = "build_query_body"
    /\ ~proto.applied
    /\ proto' = [proto EXCEPT !.applied = TRUE,
                              !.out = build_query_body(proto.input.params,
                                                       proto.input.csrf_token)]
    /\ UNCHANGED <<authVars, client, handles, disk, pc, caller, rpc_id, auth_retried,
                   server_retry, outcome, log, lastReq, seenVars, conversation_cache,
                   reqid_counter, reqids, uuids, q, answered, returned, fetches,
                   tracing, tool, ops>>

\* Credential files load_tokens may find: what save_tokens wrote for a bundle
\* (with and without token and session id), and the unusable contents.
StoredFiles ==
    ExternalFiles
    \cup {Bundle("ckD", "", ""), Bundle("ckD", "tokD", ""), NoBundle("undecodable")}

apply_load_tokens ==
    /\ proto.fn = "load_tokens"
    /\ ~proto.applied
    /\ proto' = [proto EXCEPT !.applied = TRUE, !.out = load_tokens(proto.input)]
    /\ UNCHANGED <<authVars, client, handles, disk, pc, caller, rpc_id, auth_retried,
                   server_retry, outcome, log, lastReq, seenVars, conversation_cache,
                   reqid_counter, reqids, uuids, q, answered, returned, fetches,
                   tracing, tool, ops>>

(***************************************************************************)
(* list_notebooks: the decoded result of the list call reshaped into one   *)
(* record per notebook.                                                    *)
(***************************************************************************)
\* bool(x) of a decoded value.
Truthy(x) ==
    CASE x.t = "null" -> FALSE
      [] x.t = "num" -> x.n # 0
      [] x.t = "str" -> x.chars # << >>
      [] OTHER -> x.items # << >>

\* datetime.fromtimestamp(seconds, tz=utc) is defined for the years 1 to 9999:
\* from -62135596800 s to 253402300799 s. A timestamp's seconds are written
\* here in units of 10^9 s, so the instants it takes run from -62 to 253.
MIN_TIMESTAMP == 0 - 62
MAX_TIMESTAMP == 253
Returned(v) == [raises |-> FALSE, value |-> v]
Raised == [raises |-> TRUE, value |-> NoneValue]
IsoTime(n) == [iso |-> n]

fromtimestamp(n) ==
    IF n \in MIN_TIMESTAMP .. MAX_TIMESTAMP THEN Returned(IsoTime(n)) ELSE Raised

\* _parse_timestamp
parse_timestamp(ts) ==
    IF ts.t = "list" /\ Len(ts.items) > 0 /\ ts.items[1].t = "num"
    THEN fromtimestamp(ts.items[1].n)
    ELSE Returned(NoneValue)

Untitled == JStr(<<"Untitled">>)

\* Lines 347-353: the source summaries of one entry.
RECURSIVE SourceSummaries(_)
SourceSummaries(data) ==
    IF data = << >> THEN << >>
    ELSE LET src == Head(data)
             sid == IF src.items[1].t = "list" /\ src.items[1].items # << >>
                    THEN src.items[1].items[1] ELSE src.items[1]
         IN (IF src.t = "list" /\ Len(src.items) >= 2
             THEN <<[id |-> sid, title |-> src.items[2]]>> ELSE << >>)
            \o SourceSummaries(Tail(data))

\* Lines 321-327: the entries the loop passes over.
Skipped(nb) == nb.t # "list" \/ Len(nb.items) < 3 \/ ~Truthy(nb.items[3])

\* Lines 324-364: the record of one entry that is not skipped.
NotebookRecord(nb) ==
    LET f == nb.items
        has_meta == Len(f) > 5 /\ f[6].t = "list" /\ Len(f[6].items) > 0
        meta == f[6].items
        modified == IF has_meta /\ Len(meta) > 5 THEN parse_timestamp(meta[6])
                    ELSE Returned(NoneValue)
        created == IF has_meta /\ Len(meta) > 8 THEN parse_timestamp(meta[9])
                   ELSE Returned(NoneValue)
        sources == SourceSummaries(IF f[2].t = "list" THEN f[2].items ELSE << >>)
    IN  IF modified.raises \/ created.raises THEN Raised
        ELSE Returned([id |-> f[3],
                       title |-> IF f[1].t = "str" THEN f[1] ELSE Untitled,
                       source_count |-> Len(sources),
                       sources |-> sources,
                       is_owned |-> IF has_meta THEN meta[1] = JNum(1) ELSE TRUE,
                       is_shared |-> IF has_meta /\ Len(meta) > 1 THEN Truthy(meta[2])
                                     ELSE FALSE,
                       created_at |-> created.value,
                       modified_at |-> modified.value])

\* Line 319: the list the loop runs over.
notebook_list(result) ==
    IF result.items[1].t = "list" THEN result.items[1].items ELSE result.items

RECURSIVE NotebookRecords(_)
NotebookRecords(entries) ==
    IF entries = << >> THEN Returned(<< >>)
    ELSE IF Skipped(Head(entries)) THEN NotebookRecords(Tail(entries))
    ELSE LET first == NotebookRecord(Head(entries))
             rest == NotebookRecords(Tail(entries))
         IN IF first.raises \/ rest.raises THEN Raised
            ELSE Returned(<<first.value>> \o rest.value)

list_notebooks(result) ==
    IF ~Truthy(result) \/ result.t # "list" THEN Returned(<< >>)
    ELSE NotebookRecords(notebook_list(result))

\* Entries a decoded list may hold: values that are no list, short lists,
\* entries without id, and entries with each shape of source list, metadata
\* and timestamp pair.
Stamp(n) == JList(<<JNum(n), JNum(0)>>)
Meta(owned, shared, modified, created) ==
    JList(<<owned, shared, JNull, JNull, JNull, modified, JNull, JNull, created>>)
Notebook(title, sources, id, meta) == JList(<<title, sources, id, JNull, JNull, meta>>)
TitleT == JStr(<<"T">>)
IdA == JStr(<<"a">>)
IdB == JStr(<<"b">>)
NotebookEntries ==
    { JNull, JStr(<<"x">>), JList(<<TitleT, JList(<< >>)>>),
      JList(<<TitleT, JList(<< >>), JNull>>),
      JList(<<TitleT, JList(<< >>), JStr(<< >>)>>),
      JList(<<TitleT, JList(<< >>), IdA>>),
      JList(<<JNum(1), JNull, IdB>>),
      Notebook(TitleT, JList(<<JList(<<JList(<<IdB>>), TitleT>>), JNull, JList(<<IdA>>),
                               JList(<<JList(<< >>), JNull>>)>>), IdA, JNull),
      Notebook(TitleT, JList(<< >>), IdB, JList(<< >>)),
      Notebook(TitleT, JList(<< >>), IdA, JList(<<JNum(1)>>)),
      Notebook(TitleT, JList(<< >>), IdB, JList(<<JNum(2), JNum(1)>>)),
      Notebook(TitleT, JList(<< >>), IdA, Meta(JNum(1), JNull, Stamp(1), Stamp(2))),
      Notebook(TitleT, JList(<< >>), IdB, Meta(JNum(1), JNull, JNull, JList(<< >>))),
      Notebook(TitleT, JList(<< >>), IdA, Meta(JNum(1), JNull, JList(<<TitleT>>), Stamp(1))),
      Notebook(TitleT, JList(<< >>), IdB, Meta(JNum(1), JNull, Stamp(MAX_TIMESTAMP + 1),
                                               Stamp(1))),
      Notebook(TitleT, JList(<< >>), IdA, Meta(JNum(1), JNull, Stamp(MAX_TIMESTAMP),
                                               Stamp(MIN_TIMESTAMP))) }
MaxNotebooks == 2
ListResults ==
    {JNull, JList(<< >>), JStr(<<"x">>)}
    \cup {JList(<<JList(es)>>) : es \in SeqsUpTo(NotebookEntries, MaxNotebooks)}
    \cup {JList(es) : es \in {<<JNull, e>> : e \in NotebookEntries}}

apply_list_notebooks ==
    /\ proto.fn = "list_notebooks"
    /\ ~proto.applied
    /\ proto' = [proto EXCEPT !.applied = TRUE, !.out = list_notebooks(proto.input)]
    /\ UNCHANGED <<authVars, client, handles, disk, pc, caller, rpc_id, auth_retried,
                   server_retry, outcome, log, lastReq, seenVars, conversation_cache,
                   reqid_counter, reqids, uuids, q, answered, returned, fetches,
                   tracing, tool, ops>>

(***************************************************************************)
(* merge_mcp_config: read a client's configuration file, set the server's  *)
(* entry under the server key, and write the file back.                    *)
(***************************************************************************)
\* Configuration values: objects as their members in text order (a key may
\* occur twice in a text), and values that are no object.
Obj(pairs) == [t |-> "obj", s |-> "", pairs |-> pairs]
Leaf(t, s) == [t |-> t, s |-> s, pairs |-> << >>]
Member(k, v) == [k |-> k, v |-> v]
Has(pairs, k) == \E i \in 1 .. Len(pairs) : pairs[i].k = k
Get(pairs, k) == pairs[CHOOSE i \in 1 .. Len(pairs) : pairs[i].k = k].v
Keys(pairs) == {pairs[i].k : i \in 1 .. Len(pairs)}

\* d[k] = v on a dict: the value replaced where the key stands, else appended.
\* (First the assignment that leaves nothing but the new member.)
PutAlone(pairs, k, v) == <<Member(k, v)>>
Put(pairs, k, v) ==
    IF Has(pairs, k)
    THEN [i \in 1 .. Len(pairs) |-> IF pairs[i].k = k THEN Member(k, v) ELSE pairs[i]]
    ELSE Append(pairs, Member(k, v))

\* json.loads of an object: members in order, a repeated key keeps its place
\* and takes the later value; member objects likewise.
RECURSIVE LoadMembers(_, _)
LoadMembers(pairs, acc) ==
    IF pairs = << >> THEN acc
    ELSE LoadMembers(Tail(pairs),
                     Put(acc, Head(pairs).k,
                         IF Head(pairs).v.t = "obj"
                         THEN Obj(LoadMembers(Head(pairs).v.pairs, << >>))
                         ELSE Head(pairs).v))
loads_config(value) ==
    IF value.t = "obj" THEN Obj(LoadMembers(value.pairs, << >>)) ELSE value

\* The file at config_path: missing, unreadable, blank, no JSON, or a JSON
\* text in the layout it was found in or in the layout json.dumps(indent=2)
\* writes.
ConfigFile(kind, layout, value) == [kind |-> kind, layout |-> layout, value |-> value]
NoFile == ConfigFile("missing", "", Leaf("null", ""))
BlankFile == ConfigFile("blank", "", Leaf("null", ""))
JsonFile(layout, value) == ConfigFile("json", layout, value)

MergeResult(ok, msg, raises, file, backup) ==
    [ok |-> ok, msg |-> msg, raises |-> raises, file |-> file, backup |-> backup]

\* written: what write_text did ("written", "refused" before the file was
\* opened, or "truncated" when the write failed after it).
merge_mcp_config(file, backup, server_key, server_name, server_entry, written) ==
    LET config == IF file.kind = "json" THEN loads_config(file.value) ELSE Obj(<< >>)
        with_key == IF config.t = "obj" /\ ~Has(config.pairs, server_key)
                    THEN Put(config.pairs, server_key, Obj(<< >>)) ELSE config.pairs
        servers == Get(with_key, server_key)
        merged == Obj(Put(with_key, server_key,
                          Obj(Put(servers.pairs, server_name, server_entry))))
    IN  IF file.kind = "unreadable" THEN MergeResult(FALSE, "Cannot read", FALSE, file, backup)
        ELSE IF file.kind = "corrupt"
        THEN MergeResult(FALSE, "Corrupt JSON", FALSE, file, file)
        ELSE IF config.t # "obj" THEN MergeResult(FALSE, "TypeError", TRUE, file, backup)
        ELSE IF servers.t # "obj" THEN MergeResult(FALSE, "TypeError", TRUE, file, backup)
        ELSE IF written = "written"
        THEN MergeResult(TRUE,
                         IF Has(servers.pairs, server_name)
                         THEN "Updated (was already configured)" ELSE "Added successfully",
                         FALSE, JsonFile("indent2", merged), backup)
        ELSE MergeResult(FALSE, "Cannot write", FALSE,
                         IF written = "truncated" THEN BlankFile ELSE file, backup)

\* Files a client may have, and the entries to merge.
ServerKey == "mcpServers"
ServerName == "notebooklm"
ServerEntries == {Leaf("entry", "new"), Leaf("entry", "newer")}
OtherServer == Member("other", Leaf("entry", "other"))
OldServer == Member(ServerName, Leaf("entry", "old"))
Setting == Member("model", Leaf("str", "opus"))
ConfigValues ==
    { Obj(<< >>), Obj(<<Setting>>),
      Obj(<<Member(ServerKey, Obj(<<OtherServer>>))>>),
      Obj(<<Setting, Member(ServerKey, Obj(<<OtherServer, OldServer>>)),
            Member("servers", Obj(<<OtherServer>>))>>),
      Obj(<<Member(ServerKey, Obj(<<OldServer, OtherServer>>)), Setting>>),
      Obj(<<Setting, Member("model", Leaf("str", "later"))>>),
      Obj(<<Member(ServerKey, Leaf("null", ""))>>),
      Obj(<<Member(ServerKey, Leaf("list", ""))>>),
      Leaf("list", ""), Leaf("str", ServerKey), Leaf("null", "") }
ConfigFiles ==
    {NoFile, BlankFile, ConfigFile("corrupt", "", Leaf("null", "")),
     ConfigFile("unreadable", "", Leaf("null", ""))}
    \cup {JsonFile(layout, value) : layout \in {"compact", "indent2"},
                                    value \in ConfigValues}
WriteOutcomes == {"written", "refused", "truncated"}
MaxMerges == 2

\* merge_mcp_config run on the file, and run again on what it left.
apply_merge_mcp_config ==
    /\ proto.fn = "merge_mcp_config"
    /\ Len(proto.out) < MaxMerges
    /\ proto.out # << >> => ~proto.out[Len(proto.out)].result.raises
    /\ \E entry \in ServerEntries, written \in WriteOutcomes :
         LET before == IF proto.out = << >> THEN proto.input
                       ELSE [file |-> proto.out[Len(proto.out)].result.file,
                             backup |-> proto.out[Len(proto.out)].result.backup]
             result == merge_mcp_config(before.file, before.backup, ServerKey, ServerName,
                                        entry, written)
         IN proto' = [proto EXCEPT
                        !.applied = TRUE,
                        !.out = Append(proto.out,
                                       [before |-> before, entry |-> entry,
                                        result |-> result])]
    /\ UNCHANGED <<authVars, client, handles, disk, pc, caller, rpc_id, auth_retried,
                   server_retry, outcome, log, lastReq, seenVars, conversation_cache,
                   reqid_counter, reqids, uuids, q, answered, returned, fetches,
                   tracing, tool, ops>>

InitProtocol ==
    /\ InitExecutor
    /\ tracing = FALSE
    /\ tool = NoTool
    /\ \/ \E parsed \in ExtractInputs, rpc \in {RPC_GET_NOTEBOOK, "absent"} :
            proto = Call("extract_rpc_result", parsed, rpc)
       \/ \E body \in Bodies : proto = Call("parse_response", body, "")
       \/ \E body \in QueryBodies : proto = Call("parse_query_response", body, "")
       \/ \E rpc \in MethodIds, params \in ParamValues, token \in Tokens :
            proto = Call("build_request_body",
                         [rpc_id |-> rpc, params |-> params, csrf_token |-> token], "")
       \/ \E params \in ParamValues, token \in Tokens :
            proto = Call("build_query_body",
                         [rpc_id |-> << >>, params |-> params, csrf_token |-> token], "")
       \/ \E file \in StoredFiles : proto = Call("load_tokens", file, "")
       \/ \E result \in ListResults : proto = Call("list_notebooks", result, "")
       \/ \E file \in ConfigFiles :
            proto = Call("merge_mcp_config", [file |-> file, backup |-> NoFile], "")

NextProtocol ==
    \/ apply_extract_rpc_result
    \/ apply_parse_response
    \/ apply_parse_query_response
    \/ apply_build_request_body
    \/ apply_build_query_body
    \/ apply_load_tokens
    \/ apply_list_notebooks
    \/ apply_merge_mcp_config

SpecProtocol == InitProtocol /\ [][NextProtocol]_vars

(***************************************************************************)
(* The tool layer: each tool validates its arguments, obtains the shared   *)
(* client through server.get_client, runs one client operation and turns   *)
(* its return value or exception into a result dict.                       *)
(***************************************************************************)
ClientTools ==
    {"list_notebooks", "get_notebook", "list_sources", "get_source_content",
     "query_notebook", "add_source_url", "add_source_text"}
AddSourceTools == {"add_source_url", "add_source_text"}
NotebookTools == {"list_notebooks", "get_notebook"}

\* Argument strings are sequences of symbols: a blank, a letter, a URL
\* scheme, a notebook id, a question, or a run of 500,000 letters.
Width(sym) == IF sym = "x500000" THEN TEXT_LIMIT ELSE 1
RECURSIVE StrLen(_)
StrLen(str) == IF str = << >> THEN 0 ELSE Width(Head(str)) + StrLen(Tail(str))
IsSpace(sym) == sym = " "
RECURSIVE lstrip(_)
lstrip(str) == IF str # << >> /\ IsSpace(Head(str)) THEN lstrip(Tail(str)) ELSE str
RECURSIVE rstrip(_)
rstrip(str) ==
    IF str # << >> /\ IsSpace(str[Len(str)]) THEN rstrip(SubSeq(str, 1, Len(str) - 1))
    ELSE str
strip(str) == rstrip(lstrip(str))
\* url.startswith(("http://", "https://"))
startswith_http(url) == url # << >> /\ url[1] \in {"http://", "https://"}

\* `not s or not s.strip()`
\* (First the test without the strip.)
IsMissingUnstripped(str) == str = << >>
IsMissing(str) == str = << >> \/ strip(str) = << >>

IdArgs == {<< >>, <<" ">>, <<"nb1">>}
QueryArgs == {<< >>, <<" ", " ">>, <<"q1">>}
UrlArgs == {<< >>, <<" ">>, <<"ftp://", "x">>, <<" ", "https://", "x">>, <<"http://", "x">>,
            <<"https://", "x">>}
TextArgs == {<< >>, <<" ">>, <<"x500000">>, <<"x500000", "x">>, <<" ", "x500000">>}
ArgsOf(name) ==
    IF name = "query_notebook" THEN QueryArgs
    ELSE IF name = "add_source_url" THEN UrlArgs
    ELSE IF name = "add_source_text" THEN TextArgs
    ELSE {<< >>}
IdsOf(name) == IF name = "list_notebooks" THEN {<< >>} ELSE IdArgs

\* The checks each tool makes before its try block: the message of the
\* error it returns, "" when the arguments pass.
ValidationMessage(name, id, arg) ==
    IF name = "list_notebooks" THEN ""
    ELSE IF IsMissing(id)
         THEN (IF name = "get_source_content" THEN "source_id is required."
               ELSE "notebook_id is required.")
    ELSE IF name = "query_notebook" /\ IsMissing(arg) THEN "query is required."
    ELSE IF name = "add_source_url" /\ IsMissing(arg) THEN "url is required."
    ELSE IF name = "add_source_url" /\ ~startswith_http(arg)
         THEN "url must start with http:// or https://"
    ELSE IF name = "add_source_text" /\ IsMissing(arg) THEN "text is required."
    ELSE IF name = "add_source_text" /\ StrLen(arg) > TEXT_LIMIT
         THEN "text exceeds 500,000 character limit."
    ELSE ""

ReloginHint == "Run 'notebook-julian login' to re-authenticate."
DoctorHint == "Run 'notebooklm-mcp-2026 doctor' to diagnose issues."

\* The hint of the `except Exception` clause: list_notebooks and
\* get_notebook return none, the other tools the doctor hint.
UnexpectedHint(name) == IF name \in NotebookTools THEN "" ELSE DoctorHint

\* The three except clauses of a tool, in order.
ToolExcept(name, exc) ==
    IF exc.kind = "AuthenticationError"
    THEN Result("error", TRUE, IF exc.hint THEN ReloginHint ELSE "", "AuthenticationError")
    ELSE IF exc.kind = "APIError" THEN Result("error", TRUE, "", "NotebookJulianError")
    ELSE Result("error", TRUE, UnexpectedHint(name), "Exception")

\* The cookie names a cookie map holds.  Neither load_tokens nor get_client
\* nor the reload fallback looks at them (validate_cookies is called by the
\* command-line tools only).
CookieNames(c) ==
    IF c \in {"ckA", "ckD"} THEN REQUIRED_COOKIES
    ELSE IF c = "ckPartial" THEN {"SID", "HSID"}
    ELSE {}

\* The credential file when the server starts.
ToolFiles == ExternalFiles \cup {Bundle("ckD", "", ""), Bundle("ckPartial", "tokD", "sidD")}

\* NotebookLMClient.__init__ with the bundle b, page being what the landing
\* page fetch gets: the fetch is made only when the bundle has no token.
Constructed(b, page) ==
    IF b.csrf_token # ""
    THEN [exc |-> NoOutcome, csrf_token |-> b.csrf_token, session_id |-> b.session_id,
          fetched |-> FALSE]
    ELSE IF page.outcome = "transport"
    THEN [exc |-> RawError("TransportError", 0), csrf_token |-> "", session_id |-> "",
          fetched |-> FALSE]
    ELSE IF RefreshFails(page)
    THEN [exc |-> RefreshError(page), csrf_token |-> "", session_id |-> "",
          fetched |-> FALSE]
    ELSE [exc |-> NoOutcome, csrf_token |-> page.csrf,
          session_id |-> IF page.sid # "" THEN page.sid ELSE b.session_id,
          fetched |-> TRUE]

\* server.get_client when _client is None: load_tokens, then the constructor.
\* exc is what get_client raises (NoOutcome when it returns the client).
get_client(file, page) ==
    LET loaded == load_tokens(file) IN
    IF loaded.raises
    THEN [exc |-> RawError("AttributeError", 0), bundle |-> NoBundle("None"), fetched |-> FALSE]
    ELSE IF loaded.tokens.kind # "bundle"
    THEN [exc |-> RawError("ValueError", 0), bundle |-> NoBundle("None"), fetched |-> FALSE]
    ELSE LET made == Constructed(loaded.tokens, page) IN
         [exc |-> made.exc,
          bundle |-> Bundle(loaded.tokens.cookies, made.csrf_token, made.session_id),
          fetched |-> made.fetched]

\* What a constructor that refreshed leaves in the credential file.
FilesAfter(got) == IF got.fetched THEN {disk, got.bundle} ELSE {disk}

ToolIdle == pc = "idle" /\ tool.phase \in {"none", "done"} /\ ops < MaxTools

\* The client method a tool calls first, and the method id it sends.
MethodOf(name) ==
    IF name = "list_notebooks" THEN "list_notebooks"
    ELSE IF name \in {"get_notebook", "list_sources"} THEN "get_notebook"
    ELSE IF name = "get_source_content" THEN "get_source_content"
    ELSE IF name \in AddSourceTools THEN "add_source"
    ELSE "query"
RpcOf(name) ==
    IF name = "list_notebooks" THEN RPC_LIST_NOTEBOOKS
    ELSE IF name \in {"get_notebook", "list_sources"} THEN RPC_GET_NOTEBOOK
    ELSE IF name = "get_source_content" THEN RPC_GET_SOURCE
    ELSE RPC_ADD_SOURCE

\* A required argument is missing or malformed: the tool returns the error
\* before its try block, so get_client is never reached.
tool_invoke_invalid ==
    /\ ToolIdle
    /\ ops' = ops + 1
    /\ \E name \in ClientTools :
         \E id \in IdsOf(name), arg \in ArgsOf(name) :
           /\ ValidationMessage(name, id, arg) # ""
           /\ tool' = ToolState(name, id, arg, "done", Result("error", TRUE, "", "validation"))
    /\ UNCHANGED <<authVars, client, handles, disk, pc, caller, rpc_id, auth_retried,
                   server_retry, outcome, log, lastReq, seenVars, conversation_cache,
                   reqid_counter, reqids, uuids, q, answered, returned, fetches,
                   tracing, proto>>

\* get_client raises inside the tool's try block: load_tokens raised or
\* returned None, or the constructor's refresh failed; _client stays None.
tool_invoke_no_client ==
    /\ ToolIdle
    /\ ~tool.installed
    /\ ops' = ops + 1
    /\ \E name \in ClientTools, page \in Pages :
         \E id \in IdsOf(name), arg \in ArgsOf(name) :
           LET got == get_client(disk, page) IN
           /\ ValidationMessage(name, id, arg) = ""
           /\ got.exc # NoOutcome
           /\ tool' = [ToolState(name, id, arg, "done", ToolExcept(name, got.exc))
                         EXCEPT !.loads = 1, !.file = disk]
    /\ UNCHANGED <<authVars, client, handles, disk, pc, caller, rpc_id, auth_retried,
                   server_retry, outcome, log, lastReq, seenVars, conversation_cache,
                   reqid_counter, reqids, uuids, q, answered, returned, fetches,
                   tracing, proto>>

\* get_client returns: the installed client, or one made from the stored
\* bundle and installed as server._client.
tool_get_client ==
    /\ ToolIdle
    /\ ops' = ops + 1
    /\ \E name \in ClientTools, page \in Pages :
         \E id \in IdsOf(name), arg \in ArgsOf(name) :
           LET got == IF tool.installed
                      THEN [exc |-> NoOutcome, fetched |-> FALSE,
                            bundle |-> Bundle(cookies, csrf_token, session_id)]
                      ELSE get_client(disk, page)
           IN
           /\ ValidationMessage(name, id, arg) = ""
           /\ got.exc = NoOutcome
           /\ cookies' = got.bundle.cookies
           /\ csrf_token' = got.bundle.csrf_token
           /\ session_id' = got.bundle.session_id
           /\ disk' \in FilesAfter(got)
           /\ tool' = [ToolState(name, id, arg, "client", NoResult)
                         EXCEPT !.installed = TRUE,
                                !.loads = IF tool.installed THEN 0 ELSE 1,
                                !.fetched = got.fetched,
                                !.file = IF tool.installed THEN NoBundle("unread") ELSE disk]
    /\ UNCHANGED <<auth_changes, client, handles, pc, caller, rpc_id, auth_retried,
                   server_retry, outcome, log, lastReq, seenVars, conversation_cache,
                   reqid_counter, reqids, uuids, q, answered, returned, fetches,
                   tracing, proto>>

\* The tool calls its client method: _call_rpc starts, or query() does.
tool_start_call ==
    /\ pc = "idle"
    /\ tool.phase = "client"
    /\ tool' = [tool EXCEPT !.phase = "call"]
    /\ IF tool.name = "query_notebook"
       THEN \E src \in SourceArgs, conv \in ConvArgs : AskFrame(tool.arg[1], src, conv)
       ELSE /\ StartCall(MethodOf(tool.name), RpcOf(tool.name))
            /\ pc' = "send"
            /\ UNCHANGED <<client, handles, q>>
    /\ UNCHANGED <<authVars, disk, conversation_cache, reqid_counter, reqids, uuids,
                   answered, returned, fetches, tracing, proto, ops>>

\* _parse_source_result: None for an empty result, else the id and title.
parse_source_result(value) == IF value = NoneValue THEN "None" ELSE "dict"

\* {"status": "success", **result}: a status key of the client's dict
\* replaces the tool's.
MergedStatus(out) == IF out.kind = "timeout_dict" THEN "timeout" ELSE "success"

\* The tool's result for what the client method returned or raised.
ToolResult(name, out) ==
    IF out.kind \in {"result", "answer", "timeout_dict"}
    THEN IF name \in AddSourceTools /\ out.kind = "result"
            /\ parse_source_result(out.value) = "None"
         THEN Result("error", TRUE, "", "no response")
         ELSE Result(MergedStatus(out), FALSE, "", "")
    ELSE ToolExcept(name, out)

\* get_notebook: list_sources has returned, list_notebooks is called next.
tool_second_call ==
    /\ pc = "idle"
    /\ tool.phase = "call"
    /\ tool.name = "get_notebook"
    /\ outcome.kind = "result"
    /\ tool' = [tool EXCEPT !.phase = "second"]
    /\ StartCall("list_notebooks", RPC_LIST_NOTEBOOKS)
    /\ pc' = "send"
    /\ UNCHANGED <<authVars, client, handles, disk, conversation_cache, reqid_counter,
                   reqids, uuids, q, answered, returned, fetches, tracing, proto, ops>>

\* The client method is back: the tool returns its result dict.
tool_return ==
    /\ pc = "idle"
    /\ tool.phase \in {"call", "second"}
    /\ ~(tool.phase = "call" /\ tool.name = "get_notebook" /\ outcome.kind = "result")
    /\ tool' = [tool EXCEPT !.phase = "done", !.result = ToolResult(tool.name, outcome)]
    /\ UNCHANGED <<authVars, client, handles, disk, pc, caller, rpc_id, auth_retried,
                   server_retry, outcome, log, lastReq, seenVars, conversation_cache,
                   reqid_counter, reqids, uuids, q, answered, returned, fetches,
                   tracing, proto, ops>>

\* check_auth: load_tokens outside any try block, then a client of its own
\* made from the bundle and closed at once.
LoginHint == "Run 'notebooklm-mcp-2026 login' to re-authenticate."
CheckAuthResult(made) ==
    IF made.exc = NoOutcome THEN Result("authenticated", FALSE, "", "")
    ELSE IF made.exc.kind = "AuthenticationError"
    THEN Result("expired", FALSE, LoginHint, "AuthenticationError")
    ELSE Result("error", TRUE, "", "Exception")

check_auth ==
    /\ ToolIdle
    /\ ops' = ops + 1
    /\ \E page \in Pages :
         LET loaded == load_tokens(disk)
             made == Constructed(loaded.tokens, page)
             now == [ToolState("check_auth", << >>, << >>, "done", NoResult)
                       EXCEPT !.loads = 1, !.file = disk, !.page = page]
         IN
         IF loaded.raises
         THEN /\ tool' = [now EXCEPT !.raised = TRUE]
              /\ disk' = disk
         ELSE IF loaded.tokens.kind # "bundle"
         THEN /\ tool' = [now EXCEPT !.result = Result("not_authenticated", FALSE, "", "")]
              /\ disk' = disk
         ELSE /\ tool' = [now EXCEPT !.result = CheckAuthResult(made),
                                     !.fetched = made.fetched]
              /\ disk' \in (IF made.fetched
                            THEN {disk, Bundle(loaded.tokens.cookies, made.csrf_token,
                                               made.session_id)}
                            ELSE {disk})
    /\ UNCHANGED <<authVars, client, handles, pc, caller, rpc_id, auth_retried,
                   server_retry, outcome, log, lastReq, seenVars, conversation_cache,
                   reqid_counter, reqids, uuids, q, answered, returned, fetches,
                   tracing, proto>>

\* login: the cookies Chrome hands over (all required names present), the
\* token and session id of the page, saved to the credential file; a
\* RuntimeError or any other exception becomes an error result.
LoginBundles == {Bundle("ckD", "tokD", "sidD"), Bundle("ckD", "", "")}
login ==
    /\ ToolIdle
    /\ ops' = ops + 1
    /\ \/ \E b \in LoginBundles :
            /\ disk' = b
            /\ tool' = ToolState("login", << >>, << >>, "done", Result("success", FALSE, "", ""))
       \/ \E clause \in {"RuntimeError", "Exception"} :
            /\ disk' = disk
            /\ tool' = ToolState("login", << >>, << >>, "done", Result("error", TRUE, "", clause))
    /\ UNCHANGED <<authVars, client, handles, pc, caller, rpc_id, auth_retried,
                   server_retry, outcome, log, lastReq, seenVars, conversation_cache,
                   reqid_counter, reqids, uuids, q, answered, returned, fetches,
                   tracing, proto>>

InitTools ==
    /\ cookies = ""
    /\ csrf_token = ""
    /\ session_id = ""
    /\ disk \in ToolFiles
    /\ InitCall
    /\ tracing = FALSE
    /\ proto = NoCall
    /\ tool = NoTool

NextTools ==
    \/ tool_invoke_invalid
    \/ tool_invoke_no_client
    \/ tool_get_client
    \/ tool_start_call
    \/ tool_second_call
    \/ tool_return
    \/ check_auth
    \/ login
    \/ call_rpc_ok
    \/ call_rpc_server_retry
    \/ call_rpc_server_exhausted
    \/ call_rpc_auth_status
    \/ call_rpc_http_error
    \/ call_rpc_auth_expired
    \/ call_rpc_transport_error
    \/ retry_refresh_ok
    \/ retry_reload_ok
    \/ retry_reload_none
    \/ retry_reload_raises
    \/ retry_refresh_transport
    \/ ask_ok
    \/ ask_http_error
    \/ ask_transport_error

SpecTools == InitTools /\ [][NextTools]_vars

(***************************************************************************)
(* close: the current handle (and only it) is closed and forgotten.        *)
(***************************************************************************)
close ==
    /\ pc = "idle"
    /\ ops < MaxOps
    /\ ops' = ops + 1
    /\ client # 0
    /\ handles' = [handles EXCEPT ![client].open = FALSE]
    /\ client' = 0
    /\ UNCHANGED <<seenVars, askVars, authVars, disk, pc, caller, rpc_id, auth_retried, server_retry,
                   outcome, log, lastReq>>

Next ==
    \/ Execute
    \/ call_rpc_ok
    \/ call_rpc_server_retry
    \/ call_rpc_server_exhausted
    \/ call_rpc_auth_status
    \/ call_rpc_http_error
    \/ call_rpc_auth_expired
    \/ call_rpc_transport_error
    \/ retry_refresh_ok
    \/ retry_reload_ok
    \/ retry_reload_none
    \/ retry_reload_raises
    \/ retry_refresh_transport
    \/ close

Spec == Init /\ [][Next]_vars

\* A call that has started runs on: each attempt gets its response or its
\* exception, each sleep ends, each refresh and each load returns.
Running ==
    \/ call_rpc_ok
    \/ call_rpc_server_retry
    \/ call_rpc_server_exhausted
    \/ call_rpc_auth_status
    \/ call_rpc_http_error
    \/ call_rpc_auth_expired
    \/ call_rpc_transport_error
    \/ retry_refresh_ok
    \/ retry_reload_ok
    \/ retry_reload_none
    \/ retry_reload_raises
    \/ retry_refresh_transport
SpecFair == Init /\ [][Next]_vars /\ WF_vars(Running)

\* The Executor used for ask() only.
NextAsk ==
    \/ Ask
    \/ ask_ok
    \/ ask_http_error
    \/ ask_transport_error
    \/ call_rpc_ok
    \/ call_rpc_server_retry
    \/ call_rpc_server_exhausted
    \/ call_rpc_auth_status
    \/ call_rpc_http_error
    \/ call_rpc_auth_expired
    \/ call_rpc_transport_error
    \/ retry_refresh_ok
    \/ retry_reload_ok
    \/ retry_reload_none
    \/ retry_reload_raises
    \/ retry_refresh_transport

SpecAsk == InitAsk /\ [][NextAsk]_vars

\* The Executor used for ask() and closed in between.
NextLife ==
    \/ NextAsk
    \/ close

SpecLife == InitAsk /\ [][NextLife]_vars

(***************************************************************************)
(* Properties of _call_rpc, checked under Spec.  The log is the record of  *)
(* one top-level _call_rpc invocation: it is emptied when execute starts.  *)
(***************************************************************************)
LastEvent == log[Len(log)]
IsLoad(x) == x.e \in {"load_bundle", "load_none", "load_raises"}
IsPost(x) == x.e \in {"send", "send_raised"}

\* C1: within one _call_rpc invocation the auth refresh is attempted at most
\* once, also when a server-error backoff happens between two auth failures.
C1_AtMostOneRefresh == Refreshes <= 1

\* A call that refreshed once, then backed off, then met an auth-class signal.
C1_Witness ==
    /\ Done
    /\ Refreshes = 1
    /\ IsAuthSignal(LastEvent)
    /\ \E i, j \in 1 .. Len(log) : i < j /\ IsRefresh(log[i]) /\ log[j].e = "sleep"

\* C2: within one _call_rpc invocation the server-error backoff retries
\* (sleep, then resend) never number more than MAX_RETRIES, also when an
\* auth retry is interleaved with them.
C2_BackoffRetriesBounded == Count("sleep") <= MAX_RETRIES

\* C3: when the first response is HTTP 401 or 403, the refresh succeeds and the
\* resent call succeeds, the call returns the result decoded from the second
\* response; the refresh ran exactly once, exactly two requests were sent, and
\* the second went out after the refresh, over a new handle, with the
\* refreshed token.
C3_Case ==
    /\ Len(log) >= 1
    /\ log[1].e = "send" /\ log[1].d \in {401, 403}
    /\ \E i, j \in 1 .. Len(log) :
         /\ i < j
         /\ log[i].e = "refresh_ok"
         /\ \A k \in 1 .. (i - 1) : ~IsRefresh(log[k])
         /\ log[j] = Event("send", 200)
         /\ \A k \in (i + 1) .. (j - 1) : ~IsPost(log[k])

C3_AuthRetryReturnsSecondResponse ==
    C3_Case =>
      /\ Len(log) = 3
      /\ log[2] = Event("refresh_ok", 0)
      /\ log[3] = Event("send", 200)
      /\ Refreshes = 1
      /\ Len(SelectSeq(log, IsPost)) = 2
      /\ Done
      /\ outcome.kind = "result"
      /\ outcome.value = extract_rpc_result(lastBody, rpc_id).value
      /\ lastReq.csrf = csrf_token
      /\ lastReq.sid = session_id
      /\ lastReq.handle = Len(handles)
      /\ Len(handles) >= 2

C3_Witness ==
    /\ Done
    /\ log = <<Event("send", 403), Event("refresh_ok", 0), Event("send", 200)>>
    /\ outcome.kind = "result"
    /\ outcome.value = JNum(2)

\* C4: the backoff delays of one _call_rpc invocation start at
\* RETRY_BASE_DELAY, double with each further retry, never decrease and never
\* exceed RETRY_MAX_DELAY.
C4_DelaysDoubleFromBase ==
    /\ Len(Delays) >= 1 => Delays[1].d = RETRY_BASE_DELAY
    /\ \A i \in 2 .. Len(Delays) :
         /\ Delays[i].d = Min(2 * Delays[i - 1].d, RETRY_MAX_DELAY)
         /\ Delays[i].d >= Delays[i - 1].d
    /\ \A i \in 1 .. Len(Delays) : Delays[i].d <= RETRY_MAX_DELAY

\* C5: every HTTP 429 and every status in 500..599 is retried while server
\* retries remain: a call never ends on such a status with retries left.
C5_EveryServerStatusRetried ==
    (Done /\ Len(log) >= 1 /\ LastEvent.e = "send" /\ IsServerErrorClass(LastEvent.d))
      => ~RetriesRemain(server_retry)

\* C6: when every attempt meets a status of RETRYABLE_STATUS_CODES and there is
\* no auth failure, exactly MAX_RETRIES + 1 requests are sent, the call then
\* raises the APIError of the server-error kind carrying the last status, and
\* the last request is the last thing the call did.
C6_Case ==
    /\ Done
    /\ Len(log) >= 1
    /\ \A i \in 1 .. Len(log) :
         \/ log[i].e = "sleep"
         \/ log[i].e = "send" /\ i < Len(log) /\ log[i].d = 0
         \/ log[i].e = "send" /\ i = Len(log) /\ log[i].d \in RETRYABLE_STATUS_CODES

C6_ExhaustedAfterMaxRetriesPlusOne ==
    /\ C6_Case =>
         /\ Count("send") = MAX_RETRIES + 1
         /\ Count("sleep") = MAX_RETRIES
         /\ outcome = ServerError(LastEvent.d)
    /\ (Refreshes = 0) => Count("send") <= MAX_RETRIES + 1

C6_Witness ==
    /\ C6_Case
    /\ outcome.kind = "APIError"
    /\ outcome.status = 429
    /\ Count("send") = 4

\* C7: when a call that has used its auth retry meets an auth-class signal
\* again (HTTP 401, 403 or the error signature), it raises an
\* AuthenticationError with the re-login hint, not an APIError.
C7_SecondAuthSignalIsAuthenticationError ==
    (Done /\ Refreshes >= 1 /\ Len(log) >= 1 /\ IsAuthSignal(LastEvent))
      => (outcome.kind = "AuthenticationError" /\ outcome.hint)

AskReturned == Done /\ outcome.kind = "answer"
CountOf(f, conv) == IF conv \in DOMAIN f THEN f[conv] ELSE 0

\* C9 (as stated): every returning ask() called without a conversation id
\* returns is_follow_up = false and turn_number = 1; the n-th returning ask on
\* a returned id returns turn_number = n, and is_follow_up = true for n >= 2.
C9_TurnNumberCountsReturningAsks ==
    AskReturned =>
      /\ lastReq.given = NoConv =>
           (~outcome.is_follow_up /\ outcome.turn_number = 1)
      /\ lastReq.given >= 1 =>
           /\ outcome.turn_number = CountOf(returned, lastReq.given)
           /\ CountOf(returned, lastReq.given) >= 2 => outcome.is_follow_up

\* C9 (amended): a returning ask() returns is_follow_up = true exactly when a
\* conversation id was given; turn_number is the number of asks on that
\* conversation, this one included, whose decoded answer was non-empty: for an
\* ask without a conversation id, 1 when the answer is non-empty and 0 when
\* it is empty.
C9_TurnNumberCountsStoredTurns ==
    AskReturned =>
      /\ outcome.is_follow_up = (lastReq.given # NoConv)
      /\ lastReq.given # NoConv => outcome.conversation_id = lastReq.given
      /\ outcome.turn_number = CountOf(answered, outcome.conversation_id)
      /\ lastReq.given = NoConv =>
           outcome.turn_number = (IF outcome.answer # "" THEN 1 ELSE 0)

\* The third returning ask on a returned id, one answer before it empty.
C9_Witness ==
    /\ AskReturned
    /\ lastReq.given >= 1
    /\ outcome.is_follow_up
    /\ outcome.turn_number = 2
    /\ CountOf(returned, lastReq.given) = 3

\* C10: the request of a follow-up on a conversation with n >= 1 stored turns
\* carries as history, for the turns in stored order, the record
\* [answer, None, 2] and then the record [question, None, 1] of each; the
\* request of an ask without a conversation id carries a null history.
C10_Holds ==
    LET turns == Turns(conversation_cache, q.conversation_id)
        n == Len(turns)
        h == lastReq'.history
    IN  (pc = "q_send" /\ pc' = "idle") =>
          /\ q.conversation_id = NoConv => h = NullHistory
          /\ (q.conversation_id # NoConv /\ n >= 1) =>
               /\ ~h.null
               /\ Len(h.records) = 2 * n
               /\ \A i \in 1 .. n :
                    /\ h.records[2 * i - 1] = <<turns[i].answer, NoneValue, 2>>
                    /\ h.records[2 * i] = <<turns[i].query, NoneValue, 1>>

C10_HistoryInterleavesStoredTurns == [][C10_Holds]_vars

\* A follow-up sent on a conversation that held two stored turns.
C10_Witness ==
    /\ pc = "idle"
    /\ lastReq.kind = "query"
    /\ lastReq.given >= 1
    /\ Len(lastReq.history.records) = 4
    /\ lastReq.history.records[3][1] = "a1"
    /\ lastReq.history.records[4][3] = 1

(***************************************************************************)
(* Properties of the Executor over its lifetime, checked under SpecLife.   *)
(***************************************************************************)
\* C11: every conversation's turn list is append-only: no step removes,
\* reorders or rewrites a stored turn, and the i-th stored turn of every
\* conversation has turn_number i.
C11_Step ==
    /\ \A conv \in DOMAIN conversation_cache :
         /\ conv \in DOMAIN conversation_cache'
         /\ Len(conversation_cache'[conv]) >= Len(conversation_cache[conv])
         /\ \A i \in 1 .. Len(conversation_cache[conv]) :
              conversation_cache'[conv][i] = conversation_cache[conv][i]
    /\ \A conv \in DOMAIN conversation_cache' :
         \A i \in 1 .. Len(conversation_cache'[conv]) :
           conversation_cache'[conv][i].turn_number = i

C11_TurnsAppendOnly == [][C11_Step]_vars

\* A conversation of two stored turns on an Executor that was closed since.
C11_Witness ==
    /\ \E i \in 1 .. Len(handles) : ~handles[i].open
    /\ \E conv \in DOMAIN conversation_cache :
         /\ Len(conversation_cache[conv]) = 2
         /\ conversation_cache[conv][2].turn_number = 2

\* C12: ask() with source_ids omitted runs the notebook-detail call through
\* _call_rpc and has it completed before the streaming request is sent, and
\* the streaming request carries the ids of all the sources that call
\* returned; ask() with source_ids given sends no notebook-detail call.
SourceNames == <<"s1", "s2">>

C12_Step ==
    /\ (pc = "q_send" /\ pc' = "idle") =>
         /\ lastReq'.kind = "query"
         /\ q.source_arg = SourceNone =>
              /\ lastReq.kind = "batch"
              /\ lastReq.rpc = RPC_GET_NOTEBOOK
              /\ lastReq'.sources = SubSeq(SourceNames, 1, q.nb_data.n)
         /\ q.source_arg # SourceNone =>
              /\ lastReq = NoRequest
              /\ lastReq'.sources = q.source_arg
    /\ pc' \in {"send", "refresh"} => lastReq'.kind # "query"

C12_SourcesFetchedBeforeQuery == [][C12_Step]_vars

\* A streaming request carrying both sources of the notebook fetched for it.
C12_Witness ==
    /\ pc = "idle"
    /\ lastReq.kind = "query"
    /\ lastReq.sources = <<"s1", "s2">>
    /\ fetches = 1

\* C13: whenever cookies, token or session id change, the next request sent -
\* a batch call or the streaming request of ask() - goes over a handle
\* created after the change: every request goes over a handle made since the
\* latest change.
C13_RequestsOverFreshHandle ==
    lastReq.kind # "none" => handles[lastReq.handle].made_at = lastReq.auth_at

\* C14: immediately after close() returns, every transport handle the
\* Executor created during its lifetime has been closed, the handles replaced
\* after an auth refresh or a disk reload included.
C14_Step ==
    (pc = "idle" /\ pc' = "idle" /\ client # 0 /\ client' = 0) =>
      \A i \in 1 .. Len(handles') : ~handles'[i].open

C14_CloseClosesEveryHandle == [][C14_Step]_vars

\* C15: the _reqid values sent by successive ask() calls on one Executor are
\* strictly increasing: each is greater than that of every earlier ask that
\* reached the send step, the asks whose send failed included.
C15_ReqidStrictlyIncreasing ==
    /\ \A i, j \in 1 .. Len(reqids) : i < j => reqids[i] < reqids[j]
    /\ (lastReq.kind = "query") => lastReq.reqid = reqids[Len(reqids)]

\* Three asks sent, the second a new conversation whose send failed.
C15_Witness ==
    /\ Len(reqids) = 3
    /\ uuids = 2
    /\ Cardinality(DOMAIN returned) = 1
    /\ outcome.kind = "answer"

(***************************************************************************)
(* Claims on extract_rpc_result, under SpecProtocol.                       *)
(***************************************************************************)
\* The entries of all frames, in frame order and then entry order.
RECURSIVE Entries(_)
Entries(parsed) ==
    IF parsed = << >> THEN << >>
    ELSE (IF Head(parsed).t = "list" THEN Head(parsed).items ELSE << >>)
         \o Entries(Tail(parsed))

\* A wrb.fr entry whose method id is the target.
Targets(entry, rpc) ==
    /\ entry.t = "list"
    /\ Len(entry.items) >= 3
    /\ entry.items[1].t = "str" /\ entry.items[1].chars = <<"wrb.fr">>
    /\ entry.items[2].t = "str" /\ entry.items[2].chars = <<rpc>>

\* Field 5 a list containing 16 and field 6 equal to "generic".
Signature(entry) ==
    /\ Len(entry.items) >= 7
    /\ entry.items[6].t = "list"
    /\ \E k \in 1 .. Len(entry.items[6].items) :
          entry.items[6].items[k].t = "num" /\ entry.items[6].items[k].n = 16
    /\ entry.items[7].t = "str" /\ entry.items[7].chars = <<"generic">>

\* The first entry of the input that the target id matches is entry k.
FirstTarget(k) ==
    LET es == Entries(proto.input) IN
    /\ Targets(es[k], proto.rpc_id)
    /\ \A j \in 1 .. k - 1 : ~Targets(es[j], proto.rpc_id)

Extracted == proto.fn = "extract_rpc_result" /\ proto.applied

\* C16: when the first entry the target id matches carries the error
\* signature, extract_rpc_result signals Auth-Expired and returns no value,
\* whatever field 2 of the entry holds; when the target id matches no entry
\* of the frames, it returns None and signals nothing.
C16_SignatureBeforeResult ==
    Extracted =>
        LET es == Entries(proto.input) IN
        /\ \A k \in 1 .. Len(es) :
              (FirstTarget(k) /\ Signature(es[k])) =>
                  (proto.out.signal /\ proto.out.value = NoneValue)
        /\ (\A k \in 1 .. Len(es) : ~Targets(es[k], proto.rpc_id)) =>
              (~proto.out.signal /\ proto.out.value = NoneValue)

\* A signal for an entry whose field 2 holds a result, after a frame whose
\* entry has the signature under another method id.
C16_Witness ==
    /\ Extracted
    /\ proto.out.signal
    /\ LET es == Entries(proto.input) IN
       /\ Len(es) = 2
       /\ ~Targets(es[1], proto.rpc_id) /\ Signature(es[1])
       /\ FirstTarget(2) /\ Signature(es[2]) /\ es[2].items[3].t = "str"

\* The values whose compact JSON text is the given text.
ValuesOf(chars) == {v \in ResultValues : json_dumps(v) = chars}

\* C17: when the first entry the target id matches has no error signature,
\* extract_rpc_result returns the value whose JSON text field 2 is, the
\* string itself when field 2 is a string that is no JSON text, and field 2
\* itself when it is no string; when no entry matches it returns None; in
\* none of these cases does it signal.
C17_FirstMatchDecoded ==
    Extracted =>
        LET es == Entries(proto.input) IN
        /\ \A k \in 1 .. Len(es) :
              (FirstTarget(k) /\ ~Signature(es[k])) =>
                  /\ ~proto.out.signal
                  /\ LET f == es[k].items[3] IN
                     IF f.t # "str" THEN proto.out.value = f
                     ELSE IF f.chars \in RawTexts THEN proto.out.value = f
                     ELSE proto.out.value \in ValuesOf(f.chars)
        /\ (\A k \in 1 .. Len(es) : ~Targets(es[k], proto.rpc_id)) =>
              (~proto.out.signal /\ proto.out.value = NoneValue)

\* A decoded list returned from the second frame, a later matching entry
\* holding another value.
C17_Witness ==
    /\ Extracted
    /\ proto.out.value = JList(<<JNum(1), JStr(<<"a">>)>>)
    /\ LET es == Entries(proto.input) IN
       /\ Len(es) = 3
       /\ FirstTarget(2)
       /\ Targets(es[3], proto.rpc_id) /\ es[3].items[3] = JStr(<<"plain">>)

(***************************************************************************)
(* Claims on parse_response, under SpecProtocol.                           *)
(***************************************************************************)
\* The lines of the body after the prefix.
LinesOf(body) ==
    IF body # << >> /\ body[1] # << >> /\ body[1][1] = XSSI
    THEN <<SubSeq(body[1], 2, Len(body[1]))>> \o SubSeq(body, 2, Len(body))
    ELSE body

\* A line that consists only of an integer: a byte-count marker.
IsMarkerLine(line) == line \in {<<ToString(n)>> : n \in Numbers}

\* The values of the payload lines that are JSON texts, in line order.
RECURSIVE PayloadValues(_)
PayloadValues(lines) ==
    IF lines = << >> THEN << >>
    ELSE LET line == Head(lines)
             vs == {v \in FrameValues : json_dumps(v) = line}
         IN  (IF line # << >> /\ ~IsMarkerLine(line) /\ vs # {}
              THEN <<CHOOSE v \in vs : TRUE>> ELSE << >>)
             \o PayloadValues(Tail(lines))

\* C18: parse_response returns, in line order, exactly the JSON values of
\* the payload lines that parse: the prefix is stripped, blank lines and
\* byte-count marker lines contribute no frame, a payload line that does
\* not parse is skipped, and the empty and the prefix-only body give the
\* empty sequence.
C18_FramesArePayloadValues ==
    (proto.fn = "parse_response" /\ proto.applied) =>
        proto.out = PayloadValues(LinesOf(proto.input))

(***************************************************************************)
(* Claims on parse_query_response, under SpecProtocol.                     *)
(***************************************************************************)
\* The fragments longer than 20 characters that the frames of the body
\* carry: one for each wrb.fr entry of each frame that holds one.
CarriedBy(line) ==
    LET data == json_loads(line) IN
    IF ~data.ok \/ data.value.t # "list" THEN {}
    ELSE {FragmentOf(data.value.items[k]) : k \in 1 .. Len(data.value.items)}
         \ {NoFragment}

Carried(body) == UNION {CarriedBy(LinesOf(body)[k]) : k \in 1 .. Len(LinesOf(body))}

\* C19: parse_query_response returns a type-1 text whenever a frame carries
\* a type-1 fragment longer than 20 characters; when only type-2 fragments
\* are longer than 20 characters it returns the longest of them; when no
\* fragment is, it returns the empty string.
C19_AnswerBeforeThinking ==
    (proto.fn = "parse_query_response" /\ proto.applied) =>
        LET fs == Carried(proto.input) IN
        /\ (\E f \in fs : f.is_answer) => (\E f \in fs : f.is_answer /\ proto.out = f.text)
        /\ (fs # {} /\ \A f \in fs : ~f.is_answer) =>
              /\ \E f \in fs : proto.out = f.text
              /\ \A f \in fs : Len(f.text) <= Len(proto.out)
        /\ fs = {} => proto.out = << >>

(***************************************************************************)
(* Claims on build_request_body, under SpecProtocol.                       *)
(***************************************************************************)
\* Percent-decoding: every escape stands for its character.
UnquotedChar(c) ==
    CASE c = "%5B" -> "[" [] c = "%5D" -> "]" [] c = "%2C" -> "," [] c = "%22" -> "\""
      [] c = "%5C" -> "\\" [] c = "%26" -> "&" [] c = "%3D" -> "=" [] c = "%25" -> "%"
      [] c = "%20" -> " " [] c = "%2F" -> "/" [] c = "%2B" -> "+" [] OTHER -> c

unquote(text) == [k \in 1 .. Len(text) |-> UnquotedChar(text[k])]

\* The fields of a form body: the texts between the separators '&'.
RECURSIVE FieldsFrom(_, _, _)
FieldsFrom(body, i, field) ==
    IF i > Len(body) THEN (IF field = << >> THEN << >> ELSE <<field>>)
    ELSE IF body[i] = "&" THEN <<field>> \o FieldsFrom(body, i + 1, << >>)
    ELSE FieldsFrom(body, i + 1, Append(field, body[i]))

\* The values of the fields of the given name, in order.
FieldValues(body, name) ==
    LET fields == SelectSeq(FieldsFrom(body, 1, << >>),
                            LAMBDA f : Len(f) >= 2 /\ f[1] = name /\ f[2] = "=")
    IN  [k \in 1 .. Len(fields) |-> SubSeq(fields[k], 3, Len(fields[k]))]

Built == proto.fn = "build_request_body" /\ proto.applied

\* C20: for every method id, parameter value and non-empty token, the
\* f.req field of the body, percent-decoded and JSON-decoded, is the
\* envelope [[[method_id, params_json, null, "generic"]]], and params_json
\* JSON-decoded is the parameter value.
C20_EnvelopeRoundTrip ==
    (Built /\ proto.input.csrf_token # << >>) =>
        LET freq == FieldValues(proto.out, "f.req") IN
        /\ Len(freq) = 1
        /\ LET outer == json_loads(unquote(freq[1])) IN
           /\ outer.ok
           /\ outer.value.t = "list" /\ Len(outer.value.items) = 1
           /\ outer.value.items[1].t = "list" /\ Len(outer.value.items[1].items) = 1
           /\ LET entry == outer.value.items[1].items[1] IN
              /\ entry.t = "list" /\ Len(entry.items) = 4
              /\ entry.items[1] = JStr(proto.input.rpc_id)
              /\ entry.items[2].t = "str"
              /\ json_loads(entry.items[2].chars).ok
              /\ json_loads(entry.items[2].chars).value = proto.input.params
              /\ entry.items[3] = JNull
              /\ entry.items[4] = JStr(<<"generic">>)

\* A body built for a method id, a string and a token that all contain
\* separators, quotes or escapes.
C20_Witness ==
    /\ Built
    /\ proto.input.rpc_id = <<"r", "&", "\"", "=">>
    /\ proto.input.params = JList(<<JStr(<<"&", "\\">>), JNull, JList(<<JNum(2)>>)>>)
    /\ proto.input.csrf_token = <<"t", "/", "+", "&", "at", "=", "x">>

(***************************************************************************)
(* Claims on both body encoders, under SpecProtocol.                       *)
(***************************************************************************)
Encoded == proto.fn \in {"build_request_body", "build_query_body"} /\ proto.applied

\* The names of the fields of a form body, in order.
FieldNames(body) ==
    LET fields == FieldsFrom(body, 1, << >>) IN
    [k \in 1 .. Len(fields) |-> IF fields[k] = << >> THEN "" ELSE fields[k][1]]

\* The text "at=" occurs in the body at position k.
AtTextAt(body, k) == body[k] = "at" /\ k < Len(body) /\ body[k + 1] = "="

\* C21: for both encoders and every parameter value, the body has no at=
\* field when the token is empty and exactly one, after the f.req field,
\* when it is not, whatever characters parameters and token contain; the
\* body always ends with the separator '&'.
C21_OneAtFieldAfterFreq ==
    Encoded =>
        LET body == proto.out
            names == FieldNames(body)
        IN  /\ body[Len(body)] = "&"
            /\ names[1] = "f.req"
            /\ proto.input.csrf_token = << >> =>
                  /\ names = <<"f.req">>
                  /\ \A k \in 1 .. Len(body) : ~AtTextAt(body, k)
            /\ proto.input.csrf_token # << >> =>
                  /\ names = <<"f.req", "at">>
                  /\ Cardinality({k \in 1 .. Len(body) : AtTextAt(body, k)}) = 1
                  /\ unquote(FieldValues(body, "at")[1]) = proto.input.csrf_token

\* A query body for a string holding the text at= and a token holding the
\* text &at=.
C21_Witness ==
    /\ proto.fn = "build_query_body" /\ proto.applied
    /\ proto.input.params = JStr(<<"at", "=">>)
    /\ proto.input.csrf_token = <<"t", "/", "+", "&", "at", "=", "x">>
    /\ FieldNames(proto.out) = <<"f.req", "at">>

\* C29: after a successful auth refresh the save of the bundle is attempted,
\* and when the save fails (the credential file is left without the refreshed
\* bundle) the refresh still counts: the token and the session id in memory are
\* the ones of the page, nothing is raised and the call goes on to its resend.
RefreshOkStep == pc = "refresh" /\ Len(log') = Len(log) + 1 /\ log'[Len(log')].e = "refresh_ok"
SaveFailed == disk' = disk /\ disk' # Bundle(cookies', csrf_token', session_id')
PageTokens == {page.csrf : page \in Pages} \ {""}
PageSessions == {page.sid : page \in Pages} \ {""}
C29_RefreshSurvivesFailedSave ==
    [][RefreshOkStep =>
         /\ disk' \in {disk, Bundle(cookies', csrf_token', session_id')}
         /\ SaveFailed =>
              /\ csrf_token' \in PageTokens
              /\ session_id' \in PageSessions \cup {session_id}
              /\ outcome' = NoOutcome
              /\ pc' = "send"
              /\ auth_retried']_vars
\* A refresh has succeeded with a token that differs from the file's, the
\* file still holds the old bundle, and the resend came back with a result.
C29_Witness ==
    /\ Count("refresh_ok") = 1
    /\ disk # Bundle(cookies, csrf_token, session_id)
    /\ csrf_token \in PageTokens
    /\ outcome.kind = "result"
    /\ pc = "idle"

\* C30: load_tokens never raises on the content of the credential file: it
\* returns None for a missing file, for content that is no bundle document
\* (invalid JSON, JSON that is no object, bytes that decode to no text) and
\* for an empty cookie map, and otherwise the bundle that was saved, with
\* equal cookies, token and session id.
Loaded == proto.fn = "load_tokens" /\ proto.applied
IsBundleDocument(file) == file.kind = "bundle"
C30_LoadNeverRaises ==
    Loaded =>
      /\ ~proto.out.raises
      /\ IF IsBundleDocument(proto.input) /\ proto.input.cookies # ""
         THEN /\ proto.out.tokens.kind = "bundle"
              /\ proto.out.tokens.cookies = proto.input.cookies
              /\ proto.out.tokens.csrf_token = proto.input.csrf_token
              /\ proto.out.tokens.session_id = proto.input.session_id
         ELSE proto.out.tokens = NoBundle("None")

\* C22: every tool operation returns a structured result with a status
\* field and never raises past its boundary, whatever the credential store,
\* the client construction or the client operation raises.
Finished == tool.phase = "done"
StatusValues == {"success", "error", "timeout", "authenticated", "expired", "not_authenticated"}
C22_ToolsNeverRaise ==
    Finished => ~tool.raised /\ tool.result.status \in StatusValues

\* C23: for every tool, when the client operation raises an exception that
\* is none of the typed domain failures, the tool returns status "error"
\* with an error string and a hint field.
CalledAndBack ==
    /\ Finished
    /\ tool.name \in ClientTools
    /\ ValidationMessage(tool.name, tool.id, tool.arg) = ""
    /\ tool.installed
IsUnexpected(out) ==
    out.kind \notin {"none", "result", "answer", "timeout_dict", "AuthenticationError", "APIError"}
C23_UnexpectedErrorCarriesHint ==
    (CalledAndBack /\ IsUnexpected(outcome)) =>
      /\ tool.result.status = "error"
      /\ tool.result.error
      /\ tool.result.hint # ""

\* C24: when no credential bundle is stored (load_tokens returns None),
\* every tool that needs the client reports an authentication failure:
\* status "error" together with a hint telling the user to log in again.
NothingStored ==
    /\ Finished
    /\ tool.name \in ClientTools
    /\ tool.loads = 1
    /\ ~load_tokens(tool.file).raises
    /\ load_tokens(tool.file).tokens = NoBundle("None")
TellsToLogIn(hint) == hint \in {ReloginHint, LoginHint}
C24_MissingBundleIsAuthFailure ==
    NothingStored =>
      /\ tool.result.status = "error"
      /\ tool.result.clause = "AuthenticationError"
      /\ TellsToLogIn(tool.result.hint)

\* C25: for each tool with required inputs, an empty or whitespace-only
\* required argument, a URL that does not start with http:// or https://,
\* or a text longer than 500,000 characters yields status "error" before the
\* client is obtained: no credential load, no page fetch, no request, no
\* retry and no change of the Executor's state on that step.
Blank(str) == \A i \in 1 .. Len(str) : str[i] = " "
HasScheme(url) == Len(url) >= 1 /\ (url[1] = "http://" \/ url[1] = "https://")
InvalidInput(name, id, arg) ==
    /\ name \in ClientTools \ {"list_notebooks"}
    /\ \/ Blank(id)
       \/ name = "query_notebook" /\ Blank(arg)
       \/ name = "add_source_url" /\ (Blank(arg) \/ ~HasScheme(arg))
       \/ name = "add_source_text" /\ (Blank(arg) \/ StrLen(arg) > 500000)
InvocationStep == tool.phase \in {"none", "done"} /\ tool' # tool
C25_InvalidInputStopsBeforeClient ==
    [][(InvocationStep /\ InvalidInput(tool'.name, tool'.id, tool'.arg)) =>
         /\ tool'.phase = "done"
         /\ tool'.result.status = "error"
         /\ tool'.result.error
         /\ tool'.loads = 0
         /\ ~tool'.fetched
         /\ tool'.installed = tool.installed
         /\ UNCHANGED <<authVars, client, handles, disk, pc, caller, rpc_id, auth_retried,
                        server_retry, outcome, log, lastReq, seenVars, conversation_cache,
                        reqid_counter, reqids, uuids, q, answered, returned, fetches>>]_vars
\* add_source_url has returned the error for a URL with a blank in front of
\* its scheme, with a bundle in the credential file that was not loaded.
C25_Witness ==
    /\ Finished
    /\ tool.name = "add_source_url"
    /\ tool.id = <<"nb1">>
    /\ tool.arg = <<" ", "https://", "x">>
    /\ tool.result.status = "error"
    /\ tool.loads = 0
    /\ disk.kind = "bundle"
    /\ lastReq = NoRequest

\* C26: when an add-source call hits a transport timeout, on its first send
\* or on a resend after a retry, the client method returns a result with
\* status "timeout" instead of raising, nothing is sent after the timeout,
\* and the tool passes the status on instead of reporting "error".
TimedOut(out) == out.kind \in {"timeout_dict", "TimeoutException"}
C26_AddSourceTimeoutIsReturned ==
    [][/\ (caller' = "add_source" /\ TimedOut(outcome')) => outcome'.kind = "timeout_dict"
       /\ (caller' = "add_source" /\ TimedOut(outcome') /\ ~TimedOut(outcome)) =>
            /\ pc' = "idle"
            /\ tool'.phase = "call"
       /\ (caller = "add_source" /\ TimedOut(outcome) /\ tool.phase = "call") =>
            /\ lastReq' = lastReq
            /\ pc' = "idle"
            /\ tool'.phase = "done"
            /\ tool'.result.status = "timeout"
            /\ ~tool'.result.error]_vars
\* add_source_text has returned status "timeout" for a timeout that hit the
\* resend after an auth refresh.
C26_Witness ==
    /\ Finished
    /\ tool.name = "add_source_text"
    /\ tool.result.status = "timeout"
    /\ auth_retried
    /\ lastReq # NoRequest
\* add_source_url has returned status "timeout" for a timeout that hit the
\* send after a server-error backoff.
C26_WitnessBackoff ==
    /\ Finished
    /\ tool.name = "add_source_url"
    /\ tool.result.status = "timeout"
    /\ server_retry > 0

\* C27: check_auth returns status "authenticated" only after a fetch of the
\* landing page with the stored cookies has succeeded within the invocation,
\* and for every stored bundle whose cookies are expired (the fetch would be
\* redirected to the login domain) it returns "expired", whether or not the
\* bundle holds a token.
CheckedAuth == Finished /\ tool.name = "check_auth" /\ ~tool.raised
BundleStored == tool.file.kind = "bundle" /\ tool.file.cookies # ""
C27_AuthenticatedMeansPageFetched ==
    CheckedAuth =>
      /\ tool.result.status = "authenticated" => tool.fetched
      /\ (BundleStored /\ tool.page.outcome = "redirect") => tool.result.status = "expired"

\* C28: every credential bundle with which the Executor sends a call, the
\* one loaded at startup through get_client and the one installed by the
\* disk-reload fallback of an auth retry, holds all five required cookie
\* names; a bundle lacking one of them is never used for a call.
RequiredNames == {"SID", "HSID", "SSID", "APISID", "SAPISID"}
HoldsRequired(c) == \A name \in RequiredNames : name \in CookieNames(c)
Sent == lastReq.kind # "none"
C28_CallsCarryRequiredCookies == Sent => HoldsRequired(handles[lastReq.handle].cookies)

\* C31: an execute call that receives an HTTP error status that is neither
\* in the retryable set nor 401/403 fails at once with an API failure: no
\* sleep, no auth refresh and no resend happen, and the token, the session id
\* and the transport handle are left as they were.
PlainErrorStatuses == {st \in 400 .. 599 : st \notin {429, 500, 502, 503, 504, 401, 403}}
ReceivedPlainError ==
    /\ pc = "send"
    /\ Len(log') > Len(log)
    /\ log'[Len(log) + 1].e = "send"
    /\ log'[Len(log) + 1].d \in PlainErrorStatuses
C34_NoMarkerLineIsAFrame ==
    (proto.fn = "parse_response" /\ proto.applied) =>
        \A k \in 1 .. Len(proto.out) : ~IsMarkerLine(json_dumps(proto.out[k]))

\* C35: the text parse_query_response returns is the longest type-1 text
\* over 20 characters among all wrb.fr entries of all frames, else the
\* longest such type-2 text, else empty: every wrb.fr entry of a frame is
\* considered, not only the first that qualifies.
IsLongestOf(text, fs) ==
    /\ \E f \in fs : f.text = text
    /\ \A f \in fs : Len(f.text) <= Len(text)
C35_LongestOverAllEntries ==
    (proto.fn = "parse_query_response" /\ proto.applied) =>
        LET fs == Carried(proto.input)
            answers == {f \in fs : f.is_answer}
            thoughts == {f \in fs : ~f.is_answer}
        IN  IF answers # {} THEN IsLongestOf(proto.out, answers)
            ELSE IF thoughts # {} THEN IsLongestOf(proto.out, thoughts)
            ELSE proto.out = << >>

\* C37: every execute invocation terminates, with a result or a failure,
\* whatever the server answers: it sends at most 2 * (MAX_RETRIES + 1)
\* requests and refreshes at most once, because the resend after the auth
\* refresh starts with the server-retry counter at 0 and marked auth-retried,
\* and a server retry keeps the auth-retried mark.
Posts == Len(SelectSeq(log, IsPost))
AskAnsweredWithError ==
    /\ pc = "q_send"
    /\ reqids' # reqids
    /\ outcome'.status \in {401, 403, 429} \cup 500 .. 599
AnsweredStep == pc = "q_send" /\ outcome'.kind = "answer" /\ outcome'.answer # ""
UnknownIdStep ==
    /\ pc = "q_send"
    /\ reqids' # reqids
    /\ q.conversation_id # NoConv
    /\ Turns(conversation_cache, q.conversation_id) = << >>
C39_Frame ==
    /\ \A conv \in DOMAIN conversation_cache \cup DOMAIN conversation_cache' :
          Turns(conversation_cache', conv) # Turns(conversation_cache, conv)
              => AnsweredStep /\ conv = ConvId
    /\ ~AnsweredStep => conversation_cache' = conversation_cache
    /\ UnknownIdStep =>
          /\ lastReq'.history = NullHistory
          /\ lastReq'.conversation_id = q.conversation_id
          /\ outcome'.kind = "answer" => outcome'.is_follow_up
          /\ AnsweredStep =>
                /\ outcome'.turn_number = 1
                /\ conversation_cache'[q.conversation_id]
                     = <<ConversationTurn(q.query_text, outcome'.answer, 1)>>
C39_AskTouchesOnlyItsConversation == [][C39_Frame]_vars
\* An ask with a made-up id has stored turn 1 beside another conversation.
C39_Witness ==
    /\ pc = "idle"
    /\ outcome.kind = "answer" /\ outcome.conversation_id = ForeignConv
    /\ outcome.is_follow_up /\ outcome.turn_number = 1
    /\ lastReq.history = NullHistory
    /\ ForeignConv \in DOMAIN conversation_cache
    /\ \E conv \in DOMAIN conversation_cache :
          conv # ForeignConv /\ Len(conversation_cache[conv]) = 1

\* C40: a refresh that fails (login redirect, non-200 page, no token in the
\* page) leaves token, session id and cookies as they were and persists
\* nothing: after it they differ from before only by what the fallback took
\* from the credential file. A refresh that succeeds replaces the token by the
\* page's, replaces the session id only by one found in the page and keeps it
\* otherwise, and never changes the cookies.
RefreshFailedStep ==
    pc = "refresh" /\ Len(log') > Len(log) /\ log'[Len(log) + 1].e = "refresh_auth_error"
FallbackLoaded == log'[Len(log')].e = "load_bundle"
C40_RefreshFrame ==
    /\ RefreshFailedStep =>
          /\ disk' = disk
          /\ IF FallbackLoaded
             THEN /\ lastFile'.kind = "bundle"
                  /\ <<cookies', csrf_token', session_id'>>
                       = <<lastFile'.cookies, lastFile'.csrf_token, lastFile'.session_id>>
             ELSE UNCHANGED <<cookies, csrf_token, session_id, auth_changes>>
    /\ RefreshOkStep =>
          /\ cookies' = cookies
          /\ csrf_token' \in PageTokens
          /\ session_id' \in PageSessions \cup {session_id}
          /\ session_id' # ""
          /\ disk' \in {disk, Bundle(cookies, csrf_token', session_id')}
C40_RefreshFrameHolds == [][C40_RefreshFrame]_vars
\* After a refresh that replaced the token and kept the session id, a later
\* call's refresh failed with nothing to load: all is as the first left it.
C40_Witness ==
    /\ pc = "idle"
    /\ Count("refresh_auth_error") = 1 /\ Count("load_none") = 1
    /\ outcome.kind = "AuthenticationError"
    /\ cookies = "ckA" /\ csrf_token \in PageTokens /\ session_id = "sidA"
    /\ auth_changes = 1

\* C32: list_notebooks returns one record for every well-formed entry of the
\* decoded list, in the list's order, and skips every malformed entry (no
\* list, fewer than 3 fields, no id) without raising, whatever the shapes of
\* the entry's source list, metadata and timestamp pairs.
Listed == proto.fn = "list_notebooks" /\ proto.applied
WellFormed(nb) == nb.t = "list" /\ Len(nb.items) >= 3 /\ Truthy(nb.items[3])
ListedEntries ==
    IF proto.input.t = "list" /\ proto.input.items # << >>
    THEN SelectSeq(notebook_list(proto.input), WellFormed) ELSE << >>
C32_OneRecordPerWellFormedEntry ==
    Listed =>
        /\ ~proto.out.raises
        /\ Len(proto.out.value) = Len(ListedEntries)
        /\ \A k \in 1 .. Len(ListedEntries) :
             proto.out.value[k].id = ListedEntries[k].items[3]

\* C33: merge_mcp_config never destroys configuration that was there before:
\* on success every top-level key other than the server key has the value it
\* had, every other entry under the server key is as it was, and the server's
\* entry is the new one; merging the same entry twice leaves the same file and
\* reports "Updated" the second time; on a file that is no JSON it returns
\* failure, leaves the file as it was and writes a backup copy of it.
Merged == proto.fn = "merge_mcp_config" /\ proto.applied
MembersOf(file) ==
    IF file.kind = "json" /\ file.value.t = "obj" THEN loads_config(file.value).pairs
    ELSE << >>
ServersOf(file) ==
    IF Has(MembersOf(file), ServerKey) /\ Get(MembersOf(file), ServerKey).t = "obj"
    THEN Get(MembersOf(file), ServerKey).pairs ELSE << >>
Preserved(run) ==
    LET old == MembersOf(run.before.file)
        new == MembersOf(run.result.file)
    IN  /\ Keys(new) = Keys(old) \cup {ServerKey}
        /\ \A k \in Keys(old) \ {ServerKey} : Get(new, k) = Get(old, k)
        /\ Keys(ServersOf(run.result.file))
             = Keys(ServersOf(run.before.file)) \cup {ServerName}
        /\ \A n \in Keys(ServersOf(run.before.file)) \ {ServerName} :
             Get(ServersOf(run.result.file), n) = Get(ServersOf(run.before.file), n)
        /\ Get(ServersOf(run.result.file), ServerName) = run.entry
SameReqid == \E i, j \in 1 .. Len(reqids) : i < j /\ reqids[i] = reqids[j]
SameTurnNumber ==
    \E conv \in DOMAIN conversation_cache :
        \E i, j \in 1 .. Len(conversation_cache[conv]) :
            i < j /\ conversation_cache[conv][i].turn_number
                       = conversation_cache[conv][j].turn_number
C36_SerializedCallsNeverCollide == q.serialized => ~SameReqid /\ ~SameTurnNumber
\* Two interleaved calls have ended: both requests went out with one _reqid
\* and both turns of the conversation are turn 1.
C36_Witness ==
    /\ ~q.serialized
    /\ \A t \in Threads : q.frames[t].pc = "done"
    /\ SameReqid
    /\ SameTurnNumber

=============================================================================
